---- MODULE Spec2Model ----
(***************************************************************************)
(* Model of the Nation UHF RFID reader driver                              *)
(* (src/refactor-but-have-not-check/nation.py): the frame codec, the       *)
(* serial transport, the inventory worker and the foreground commands.     *)
(***************************************************************************)
EXTENDS Integers, Naturals, Sequences, FiniteSets, TLC

(***************************************************************************)
(* Bounds of the model.                                                    *)
(***************************************************************************)
MaxPayloadLen == 2
MaxWorkers == 2
MaxOps == 2
MaxDev == 3
MaxIoErr == 1
MaxStream == 3

(***************************************************************************)
(* Program constants.                                                      *)
(***************************************************************************)
CRC16_CCITT_INIT == 0
CRC16_CCITT_POLY == 32773
FRAME_HEADER == 90
PROTO_TYPE == 0
PROTO_VER == 1

(***************************************************************************)
(* Integer and byte-string primitives of the language, as the code uses    *)
(* them: |, &, ^, <<, >>, int.to_bytes, int.from_bytes, slicing.           *)
(***************************************************************************)
\* the operators on one byte, bit by bit, tabulated once
RECURSIVE BitOp8(_, _, _, _)
BitOp8(op, a, b, n) ==
    IF n = 0 THEN 0
    ELSE (CASE op = "or" -> IF a % 2 = 1 \/ b % 2 = 1 THEN 1 ELSE 0
            [] op = "xor" -> IF a % 2 = b % 2 THEN 0 ELSE 1
            [] op = "and" -> IF a % 2 = 1 /\ b % 2 = 1 THEN 1 ELSE 0)
         + 2 * BitOp8(op, a \div 2, b \div 2, n - 1)

Or8 == [a \in 0..255 |-> [b \in 0..255 |-> BitOp8("or", a, b, 8)]]
Xor8 == [a \in 0..255 |-> [b \in 0..255 |-> BitOp8("xor", a, b, 8)]]
And8 == [a \in 0..255 |-> [b \in 0..255 |-> BitOp8("and", a, b, 8)]]

\* a | b, a ^ b, a & b on non-negative integers of any width
RECURSIVE BitOr(_, _)
BitOr(a, b) ==
    IF a = 0 THEN b
    ELSE IF b = 0 THEN a
    ELSE Or8[a % 256][b % 256] + 256 * BitOr(a \div 256, b \div 256)

RECURSIVE BitXor(_, _)
BitXor(a, b) ==
    IF a = 0 THEN b
    ELSE IF b = 0 THEN a
    ELSE Xor8[a % 256][b % 256] + 256 * BitXor(a \div 256, b \div 256)

RECURSIVE BitAnd(_, _)
BitAnd(a, b) ==
    IF a = 0 \/ b = 0 THEN 0
    ELSE And8[a % 256][b % 256] + 256 * BitAnd(a \div 256, b \div 256)

RECURSIVE Pow2(_)
Pow2(n) == IF n = 0 THEN 1 ELSE 2 * Pow2(n - 1)

Shl(a, n) == a * Pow2(n)

Shr(a, n) == a \div Pow2(n)

Min(a, b) == IF a < b THEN a ELSE b

\* s[a:b] with 0-based, clipped bounds
Slice(s, a, b) == SubSeq(s, a + 1, Min(b, Len(s)))

\* n.to_bytes(k, 'big')
RECURSIVE ToBytes(_, _)
ToBytes(n, k) == IF k = 0 THEN << >> ELSE Append(ToBytes(n \div 256, k - 1), n % 256)

\* int.from_bytes(s, 'big')
RECURSIVE FromBytes(_)
FromBytes(s) ==
    IF Len(s) = 0 THEN 0
    ELSE 256 * FromBytes(SubSeq(s, 1, Len(s) - 1)) + s[Len(s)]

\* int.from_bytes(b, 'big') >> n for a 4-byte b and 1 <= n <= 24; the value
\* itself can exceed the checker's integers, its shifts cannot
Word32Shr(b, n) == b[1] * Pow2(24 - n) + Shr(FromBytes(SubSeq(b, 2, 4)), n)

\* int.from_bytes(b, 'big') & 0xFF for a 4-byte b
Word32Low(b) == BitAnd(FromBytes(SubSeq(b, 2, 4)), 255)

(***************************************************************************)
(* Frame codec.                                                            *)
(***************************************************************************)
\* the n remaining iterations of "for _ in range(8)"
RECURSIVE crc16_bits(_, _)
crc16_bits(crc, n) ==
    IF n = 0 THEN crc
    ELSE IF BitAnd(crc, 32768) # 0
    THEN crc16_bits(BitAnd(BitXor(Shl(crc, 1), CRC16_CCITT_POLY), 65535), n - 1)
    ELSE crc16_bits(BitAnd(Shl(crc, 1), 65535), n - 1)

\* the iteration with the top bit of the byte left out
crc16_byte_low_bits(crc, byte_val) == crc16_bits(BitXor(crc, Shl(byte_val % 128, 8)), 8)

\* one iteration of "for byte_val in data"
crc16_byte(crc, byte_val) == crc16_bits(BitXor(crc, Shl(byte_val, 8)), 8)

\* "for byte_val in data": the value after the bytes before the last one,
\* then the last byte
RECURSIVE crc16_ccitt(_)
crc16_ccitt(data) ==
    IF Len(data) = 0 THEN CRC16_CCITT_INIT
    ELSE LET crc == crc16_ccitt(SubSeq(data, 1, Len(data) - 1))
         IN  IF crc \in Nat THEN crc16_byte(crc, data[Len(data)]) ELSE crc

build_pcw(category, mid, rs485, notify) ==
    LET p0 == BitOr(Shl(PROTO_TYPE, 24), Shl(PROTO_VER, 16))
        p1 == IF rs485 THEN BitOr(p0, Shl(1, 13)) ELSE p0
        p2 == IF notify THEN BitOr(p1, Shl(1, 12)) ELSE p1
    IN  BitOr(p2, BitOr(Shl(category, 8), mid))

build_frame(mid_value, payload, rs485, notify) ==
    LET category == BitAnd(Shr(mid_value, 8), 255)
        mid_code == BitAnd(mid_value, 255)
        pcw_bytes == ToBytes(build_pcw(category, mid_code, rs485, notify), 4)
        addr_bytes == IF rs485 THEN <<0>> ELSE << >>
        length_bytes == ToBytes(Len(payload), 2)
        frame_content_for_crc == pcw_bytes \o addr_bytes \o length_bytes \o payload
        crc_bytes == ToBytes(crc16_ccitt(frame_content_for_crc), 2)
    IN  <<FRAME_HEADER>> \o frame_content_for_crc \o crc_bytes

\* The result of parse_frame: the parsed dictionary (pcw as its 4 bytes), or
\* the ValueError raised.
FrameError(msg) == [valid |-> FALSE, error |-> msg]

\* parse_frame without the CRC comparison
parse_frame_no_crc_check(raw) ==
    IF Len(raw) < 9 THEN FrameError("too_short")
    ELSE IF raw[1] # FRAME_HEADER THEN FrameError("bad_header")
    ELSE
      LET pcw == Slice(raw, 1, 5)
          rs485_flag == BitAnd(Word32Shr(pcw, 13), 1)
          notify_flag == BitAnd(Word32Shr(pcw, 12), 1)
          off1 == IF rs485_flag # 0 THEN 6 ELSE 5
          data_len == FromBytes(Slice(raw, off1, off1 + 2))
          off2 == off1 + 2
          off3 == off2 + data_len
      IN
      IF off2 + data_len + 2 > Len(raw) THEN FrameError("length_mismatch")
      ELSE [valid |-> TRUE,
            type |-> IF notify_flag # 0 THEN "notification" ELSE "response",
            proto_type |-> BitAnd(Word32Shr(pcw, 24), 255),
            proto_ver |-> BitAnd(Word32Shr(pcw, 16), 255),
            rs485 |-> rs485_flag # 0,
            notify |-> notify_flag # 0,
            pcw |-> pcw,
            category |-> BitAnd(Word32Shr(pcw, 8), 255),
            mid |-> Word32Low(pcw),
            address |-> IF rs485_flag # 0 THEN raw[6] ELSE -1,
            data_length |-> data_len,
            data |-> Slice(raw, off2, off3),
            crc |-> FromBytes(Slice(raw, off3, off3 + 2)),
            raw |-> raw]

parse_frame(raw) ==
    IF Len(raw) < 9 THEN FrameError("too_short")
    ELSE IF raw[1] # FRAME_HEADER THEN FrameError("bad_header")
    ELSE
      LET pcw == Slice(raw, 1, 5)
          rs485_flag == BitAnd(Word32Shr(pcw, 13), 1)
          notify_flag == BitAnd(Word32Shr(pcw, 12), 1)
          off1 == IF rs485_flag # 0 THEN 6 ELSE 5
      IN
      IF rs485_flag # 0 /\ 5 >= Len(raw) THEN FrameError("missing_address")
      ELSE IF off1 + 2 > Len(raw) THEN FrameError("missing_length")
      ELSE
        LET data_len == FromBytes(Slice(raw, off1, off1 + 2))
            off2 == off1 + 2
        IN
        IF off2 + data_len + 2 > Len(raw) THEN FrameError("length_mismatch")
        ELSE
          LET off3 == off2 + data_len
              received_crc == FromBytes(Slice(raw, off3, off3 + 2))
              calculated_crc == crc16_ccitt(Slice(raw, 1, off3))
          IN
          IF received_crc # calculated_crc THEN FrameError("crc_mismatch")
          ELSE [valid |-> TRUE,
                type |-> IF notify_flag # 0 THEN "notification" ELSE "response",
                proto_type |-> BitAnd(Word32Shr(pcw, 24), 255),
                proto_ver |-> BitAnd(Word32Shr(pcw, 16), 255),
                rs485 |-> rs485_flag # 0,
                notify |-> notify_flag # 0,
                pcw |-> pcw,
                category |-> BitAnd(Word32Shr(pcw, 8), 255),
                mid |-> Word32Low(pcw),
                address |-> IF rs485_flag # 0 THEN raw[6] ELSE -1,
                data_length |-> data_len,
                data |-> Slice(raw, off2, off3),
                crc |-> received_crc,
                raw |-> raw]

\* extract_valid_frames: the scan loop from index i with the frames found so
\* far; the result carries the frames and the index the scan stopped at.
RECURSIVE extract_scan(_, _, _)
extract_scan(data, i, frames) ==
    IF ~(i < Len(data)) THEN [frames |-> frames, i |-> i]
    ELSE IF data[i + 1] # FRAME_HEADER THEN extract_scan(data, i + 1, frames)
    ELSE IF i + 9 > Len(data) THEN [frames |-> frames, i |-> i]
    ELSE
      LET pcw_peek == Slice(data, i + 1, i + 5)
          rs485_flag_peek == BitAnd(Word32Shr(pcw_peek, 13), 1)
          length == FromBytes(Slice(data, i + 5, i + 7))
          addr_len == IF rs485_flag_peek # 0 THEN 1 ELSE 0
          full_len == 1 + 4 + addr_len + 2 + length + 2
      IN
      IF i + full_len > Len(data) THEN [frames |-> frames, i |-> i]
      ELSE
        LET frame == Slice(data, i, i + full_len)
            calculated_crc == crc16_ccitt(Slice(frame, 1, Len(frame) - 2))
            received_crc == FromBytes(Slice(frame, Len(frame) - 2, Len(frame)))
        IN  extract_scan(data, i + full_len,
                         IF calculated_crc = received_crc
                         THEN Append(frames, frame) ELSE frames)

extract_valid_frames(data) == extract_scan(data, 0, << >>).frames

all_read_end_mids == {1, 33, 49}

HexDigits == <<"0", "1", "2", "3", "4", "5", "6", "7",
               "8", "9", "A", "B", "C", "D", "E", "F">>

\* bytes.hex().upper(), as the sequence of its characters
RECURSIVE HexUpper(_)
HexUpper(s) ==
    IF Len(s) = 0 THEN << >>
    ELSE <<HexDigits[(s[1] \div 16) + 1], HexDigits[(s[1] % 16) + 1]>>
         \o HexUpper(Tail(s))

\* parse_epc with no look at what follows the antenna id
parse_epc_without_rssi(data) ==
    IF Len(data) < 2 THEN [error |-> "epc_length"]
    ELSE
      LET epc_len == FromBytes(Slice(data, 0, 2))
          pc_offset == 2 + epc_len
          antenna_id_offset == pc_offset + 2
      IN
      IF 2 + epc_len > Len(data) THEN [error |-> "epc_truncated"]
      ELSE IF pc_offset + 2 > Len(data) THEN [error |-> "pc_bits"]
      ELSE IF antenna_id_offset >= Len(data) THEN [error |-> "antenna_id"]
      ELSE [epc |-> HexUpper(Slice(data, 2, 2 + epc_len)),
            pc |-> HexUpper(Slice(data, pc_offset, pc_offset + 2)),
            antenna_id |-> data[antenna_id_offset + 1],
            rssi |-> -1]

\* parse_epc: the tag dictionary, or the {"error": ...} dictionary.
\* rssi = -1 stands for None (a byte is never negative).
parse_epc(data) ==
    IF Len(data) < 2 THEN [error |-> "epc_length"]
    ELSE
      LET epc_len == FromBytes(Slice(data, 0, 2))
          pc_offset == 2 + epc_len
          antenna_id_offset == pc_offset + 2
          pid_offset == antenna_id_offset + 1
      IN
      IF 2 + epc_len > Len(data) THEN [error |-> "epc_truncated"]
      ELSE IF pc_offset + 2 > Len(data) THEN [error |-> "pc_bits"]
      ELSE IF antenna_id_offset >= Len(data) THEN [error |-> "antenna_id"]
      ELSE [epc |-> HexUpper(Slice(data, 2, 2 + epc_len)),
            pc |-> HexUpper(Slice(data, pc_offset, pc_offset + 2)),
            antenna_id |-> data[antenna_id_offset + 1],
            rssi |-> IF Len(data) > antenna_id_offset + 1
                        /\ data[pid_offset + 1] = 1
                        /\ Len(data) > pid_offset + 1
                     THEN data[pid_offset + 2]
                     ELSE -1]

IsError(d) == "error" \in DOMAIN d

\* A 32-bit antenna mask is the sequence of the 4 bytes of its big-endian
\* form.
\* enable_ant line 2143: current_mask | (1 << (ant_id - 1)), on the 4 bytes
mask_with_bit(mask, ant_id) ==
    [i \in 1..4 |-> IF i = 4 - ((ant_id - 1) \div 8)
                    THEN BitOr(mask[i], Pow2((ant_id - 1) % 8))
                    ELSE mask[i]]

\* disable_ant line 2199: current_mask & ~(1 << (ant_id - 1)), on the 4 bytes
mask_without_bit(mask, ant_id) ==
    [i \in 1..4 |-> IF i = 4 - ((ant_id - 1) \div 8)
                    THEN BitAnd(mask[i], 255 - Pow2((ant_id - 1) % 8))
                    ELSE mask[i]]

\* the range check without its upper end
antenna_id_in_range_from_1(ant_id) == 1 <= ant_id

\* build_antenna_mask line 2252: 1 <= ant_id <= 32
antenna_id_in_range(ant_id) == 1 <= ant_id /\ ant_id <= 32

\* build_antenna_mask: the ValueError it raises, or the mask
RECURSIVE build_antenna_mask_from(_, _, _)
build_antenna_mask_from(antenna_ids, k, mask) ==
    IF k > Len(antenna_ids) THEN [exc |-> "none", mask |-> mask]
    ELSE IF ~antenna_id_in_range(antenna_ids[k])
    THEN [exc |-> "ValueError", mask |-> << >>]
    ELSE build_antenna_mask_from(antenna_ids, k + 1,
                                 mask_with_bit(mask, antenna_ids[k]))

build_antenna_mask(antenna_ids) ==
    build_antenna_mask_from(antenna_ids, 1, <<0, 0, 0, 0>>)

\* build_epc_read_payload (a mask of 4 bytes is in its range)
build_epc_read_payload(antenna_mask, continuous) ==
    (IF antenna_mask = <<0, 0, 0, 0>> THEN <<0, 0, 0, 1>> ELSE antenna_mask)
    \o (IF continuous THEN <<1>> ELSE <<0>>)

(***************************************************************************)
(* Message ids (class MID).                                                *)
(***************************************************************************)
MID_READ_EPC_TAG == 528
MID_STOP_INVENTORY == 767
MID_STOP_OPERATION == 255
MID_READ_END == 4657
MID_CONFIGURE_READER_POWER == 513

\* bytes.find: 0-based index of the first occurrence of pat at or after k, -1 if none
RECURSIVE FindFrom(_, _, _)
FindFrom(buf, pat, k) ==
    IF k + Len(pat) > Len(buf) THEN -1
    ELSE IF Slice(buf, k, k + Len(pat)) = pat THEN k
    ELSE FindFrom(buf, pat, k + 1)

\* The inventory loop's buffer handling (lines 1170-1183): append the chunk,
\* extract the frames, cut the buffer after the first occurrence of the last
\* extracted frame.
\* the loop keeping only the newest chunk
append_chunk_newest_only(buffer, raw_data) == raw_data

append_chunk(buffer, raw_data) == buffer \o raw_data

trim_buffer(buffer, frames) ==
    IF Len(frames) = 0 THEN buffer
    ELSE LET last_frame == frames[Len(frames)]
             idx_of_last_frame_end == FindFrom(buffer, last_frame, 0) + Len(last_frame)
         IN  Slice(buffer, idx_of_last_frame_end, Len(buffer))

\* the loop without its read-end branch
inventory_frame_action_no_end(frame) ==
    LET parsed_frame == parse_frame(frame) IN
    IF ~parsed_frame.valid THEN [kind |-> "skip"]
    ELSE IF parsed_frame.category = 16 \/ parsed_frame.mid = 0
    THEN LET tag == parse_epc(parsed_frame.data) IN
         IF IsError(tag) THEN [kind |-> "skip"] ELSE [kind |-> "tag", tag |-> tag]
    ELSE [kind |-> "other"]

\* the handling with a tag payload that cannot be parsed ending the loop
inventory_frame_action_error_ends(frame) ==
    LET parsed_frame == parse_frame(frame) IN
    IF ~parsed_frame.valid THEN [kind |-> "skip"]
    ELSE IF parsed_frame.category = 16 \/ parsed_frame.mid = 0
    THEN LET tag == parse_epc(parsed_frame.data) IN
         IF IsError(tag) THEN [kind |-> "end", reason |-> -1]
         ELSE [kind |-> "tag", tag |-> tag]
    ELSE IF parsed_frame.mid \in all_read_end_mids
    THEN [kind |-> "end",
          reason |-> IF Len(parsed_frame.data) > 0 THEN parsed_frame.data[1] ELSE -1]
    ELSE [kind |-> "other"]

\* The inventory loop's handling of one extracted frame (lines 1185-1213).
inventory_frame_action(frame) ==
    LET parsed_frame == parse_frame(frame) IN
    IF ~parsed_frame.valid THEN [kind |-> "skip"]
    ELSE IF parsed_frame.category = 16 \/ parsed_frame.mid = 0
    THEN LET tag == parse_epc(parsed_frame.data) IN
         IF IsError(tag) THEN [kind |-> "skip"] ELSE [kind |-> "tag", tag |-> tag]
    ELSE IF parsed_frame.mid \in all_read_end_mids
    THEN [kind |-> "end",
          reason |-> IF Len(parsed_frame.data) > 0 THEN parsed_frame.data[1] ELSE -1]
    ELSE [kind |-> "other"]

\* stop_inventory's confirmation scan of the frames of one read (lines
\* 1319-1354): the first frame that decides, or "none".
STOP_ATTEMPTS == 10

RECURSIVE stop_confirmation(_, _)
stop_confirmation(frames, k) ==
    IF k > Len(frames) THEN [decided |-> FALSE]
    ELSE LET parsed_response == parse_frame(frames[k])
             code == IF parsed_response.valid /\ Len(parsed_response.data) > 0
                     THEN parsed_response.data[1] ELSE -1
         IN
         IF ~parsed_response.valid THEN stop_confirmation(frames, k + 1)
         ELSE IF parsed_response.mid = MID_STOP_OPERATION
         THEN [decided |-> TRUE, result |-> (code = 0),
               mid |-> parsed_response.mid, code |-> code]
         ELSE IF parsed_response.mid \in all_read_end_mids
         THEN [decided |-> TRUE, result |-> TRUE,
               mid |-> parsed_response.mid, code |-> code]
         ELSE stop_confirmation(frames, k + 1)

(***************************************************************************)
(* The EPC write protocol.  A hexadecimal string is the sequence of its    *)
(* characters; an access password is the sequence of the bytes of its      *)
(* big-endian form (<< >> for None, five bytes for a value above           *)
(* 0xFFFFFFFF).                                                            *)
(***************************************************************************)
HexLower == <<"0", "1", "2", "3", "4", "5", "6", "7",
              "8", "9", "a", "b", "c", "d", "e", "f">>

\* the value of a hexadecimal digit, -1 for any other character
hex_digit_value(c) ==
    IF \E k \in 1..16 : HexDigits[k] = c
    THEN (CHOOSE k \in 1..16 : HexDigits[k] = c) - 1
    ELSE IF \E k \in 1..16 : HexLower[k] = c
    THEN (CHOOSE k \in 1..16 : HexLower[k] = c) - 1
    ELSE -1

\* str.upper()
upper(s) ==
    [i \in 1..Len(s) |->
        IF \E k \in 11..16 : HexLower[k] = s[i]
        THEN HexDigits[CHOOSE k \in 11..16 : HexLower[k] = s[i]]
        ELSE s[i]]

\* str.strip()
RECURSIVE strip(_)
strip(s) ==
    IF Len(s) = 0 THEN s
    ELSE IF s[1] = " " THEN strip(Tail(s))
    ELSE IF s[Len(s)] = " " THEN strip(SubSeq(s, 1, Len(s) - 1))
    ELSE s

\* str.ljust(width, fill)
ljust(s, width, fill) ==
    IF Len(s) >= width THEN s
    ELSE s \o [i \in 1..(width - Len(s)) |-> fill]

\* bytes.fromhex: white space between the bytes is skipped; a character that
\* is no hexadecimal digit, or a digit without its pair next to it, raises
\* ValueError
fromhex(s) ==
    LET digits == SelectSeq(s, LAMBDA c : c # " ")
        n == Len(digits)
        rank(i) == Cardinality({j \in 1..i : s[j] # " "})
        ok == /\ n % 2 = 0
              /\ \A i \in 1..n : hex_digit_value(digits[i]) >= 0
              /\ \A i \in 1..Len(s) :
                    (s[i] # " " /\ rank(i) % 2 = 1) => (i < Len(s) /\ s[i + 1] # " ")
    IN  [ok |-> ok,
         bytes |-> IF ok
                   THEN [k \in 1..(n \div 2) |->
                           16 * hex_digit_value(digits[2 * k - 1])
                           + hex_digit_value(digits[2 * k])]
                   ELSE << >>]

\* the hexadecimal digits of n, most significant first, no leading zero
RECURSIVE hex_digits_of(_)
hex_digits_of(n) ==
    IF n < 16 THEN <<HexDigits[n + 1]>>
    ELSE Append(hex_digits_of(n \div 16), HexDigits[(n % 16) + 1])

\* f"{n:04X}": at least four digits
format_04X(n) ==
    LET d == hex_digits_of(n)
    IN  [i \in 1..(IF Len(d) < 4 THEN 4 - Len(d) ELSE 0) |-> "0"] \o d

PayloadError(exc) == [exc |-> exc, payload |-> << >>]

\* the optional match parameter, lines 1441-1456 and 1646-1660: PID 0x01, the
\* length of the content, the content (area, start word, bit length, bytes)
match_parameter(match_bytes, match_start) ==
    LET match_content == <<1>> \o ToBytes(match_start, 2)
                         \o <<Len(match_bytes) * 8>> \o match_bytes
    IN  <<1>> \o ToBytes(Len(match_content), 2) \o match_content

\* the optional access password parameter, lines 1460-1464 and 1663-1667
password_parameter(access_password) == <<2, 0, 4>> \o access_password

password_in_range(access_password) ==
    /\ Len(access_password) = 4
    /\ \A i \in 1..4 : access_password[i] \in 0..255

\* write_epc_tag lines 1419-1464: the payload, or the exception raised
write_epc_tag_payload(epc_hex, antenna_id, match_epc_hex, access_password, start_word) ==
    IF ~(1 <= antenna_id /\ antenna_id <= 32) THEN PayloadError("ValueError")
    ELSE IF ~(0 <= start_word /\ start_word <= 65535) THEN PayloadError("OverflowError")
    ELSE IF ~fromhex(epc_hex).ok THEN PayloadError("ValueError")
    ELSE IF Len(fromhex(epc_hex).bytes) > 65535 THEN PayloadError("OverflowError")
    ELSE IF Len(match_epc_hex) > 0 /\ ~fromhex(match_epc_hex).ok
         THEN PayloadError("ValueError")
    ELSE IF Len(match_epc_hex) > 0 /\ Len(fromhex(match_epc_hex).bytes) * 8 > 255
         THEN PayloadError("ValueError")
    ELSE IF Len(access_password) > 0 /\ ~password_in_range(access_password)
         THEN PayloadError("ValueError")
    ELSE
      LET epc_bytes == fromhex(epc_hex).bytes
      IN  [exc |-> "none",
           payload |->
              mask_with_bit(<<0, 0, 0, 0>>, antenna_id)
              \o <<1>>
              \o ToBytes(start_word, 2)
              \o ToBytes(Len(epc_bytes), 2)
              \o epc_bytes
              \o (IF Len(match_epc_hex) > 0
                  THEN match_parameter(fromhex(match_epc_hex).bytes, start_word)
                  ELSE << >>)
              \o (IF Len(access_password) > 0
                  THEN password_parameter(access_password)
                  ELSE << >>)]

\* write_epc_tag_auto always starts at word 2, after the PC word
auto_start_word_after_pc == 1 + 1

\* write_epc_tag_auto lines 1641 and 1654: the write and the match start at
\* word 1, the PC word
auto_start_word == 1

\* the PC word and the EPC as given, without the padding to whole words
full_epc_hex_unpadded(new_epc_hex) ==
    LET epc_hex_formatted == upper(strip(new_epc_hex))
        word_len == (Len(epc_hex_formatted) + 3) \div 4
        pc_bits == word_len * 2048
        pc_hex == format_04X(pc_bits)
    IN  pc_hex \o epc_hex_formatted

\* write_epc_tag_auto lines 1618-1628: the PC word and the padded EPC, as the
\* hexadecimal string handed to bytes.fromhex
full_epc_hex(new_epc_hex) ==
    LET epc_hex_formatted == upper(strip(new_epc_hex))
        word_len == (Len(epc_hex_formatted) + 3) \div 4
        pc_bits == word_len * 2048
        pc_hex == format_04X(pc_bits)
    IN  pc_hex \o ljust(epc_hex_formatted, word_len * 4, "0")

\* write_epc_tag_auto lines 1618-1667: the payload, or the exception raised
write_epc_tag_auto_payload(new_epc_hex, match_epc_hex, antenna_id, access_password) ==
    IF ~fromhex(full_epc_hex(new_epc_hex)).ok THEN PayloadError("ValueError")
    ELSE IF ~(1 <= antenna_id /\ antenna_id <= 32) THEN PayloadError("ValueError")
    ELSE IF Len(fromhex(full_epc_hex(new_epc_hex)).bytes) > 65535
         THEN PayloadError("OverflowError")
    ELSE IF Len(match_epc_hex) > 0 /\ ~fromhex(upper(strip(match_epc_hex))).ok
         THEN PayloadError("ValueError")
    ELSE IF Len(match_epc_hex) > 0
            /\ Len(fromhex(upper(strip(match_epc_hex))).bytes) * 8 > 255
         THEN PayloadError("ValueError")
    ELSE IF Len(access_password) > 0 /\ ~password_in_range(access_password)
         THEN PayloadError("ValueError")
    ELSE
      LET epc_bytes_to_write == fromhex(full_epc_hex(new_epc_hex)).bytes
      IN  [exc |-> "none",
           payload |->
              mask_with_bit(<<0, 0, 0, 0>>, antenna_id)
              \o <<1>>
              \o ToBytes(auto_start_word, 2)
              \o ToBytes(Len(epc_bytes_to_write), 2)
              \o epc_bytes_to_write
              \o (IF Len(match_epc_hex) > 0
                  THEN match_parameter(fromhex(upper(strip(match_epc_hex))).bytes,
                                       auto_start_word)
                  ELSE << >>)
              \o (IF Len(access_password) > 0
                  THEN password_parameter(access_password)
                  ELSE << >>)]

MID_WRITE_EPC_TAG_COMMAND == 529
MID_ERROR_NOTIFICATION == 0

\* result_map, lines 1510-1523 and 1710-1717
result_map ==
    <<"antenna_parameter_error", "match_parameter_error", "write_parameter_error",
      "crc_check_error", "insufficient_power", "data_area_overflow",
      "data_area_locked", "password_error", "other_tag_error", "tag_lost",
      "reader_send_error">>

result_msg_of(write_result_code) ==
    IF write_result_code = 0 THEN "write_successful"
    ELSE IF write_result_code \in 1..Len(result_map) THEN result_map[write_result_code]
    ELSE "unknown_write_error_code"

\* the result dictionary; failed_addr = -1 stands for None
WriteResult(success, result_code, result_msg, failed_addr) ==
    [success |-> success, result_code |-> result_code, result_msg |-> result_msg,
     failed_addr |-> failed_addr]

InitialWriteResult == WriteResult(FALSE, -1, "unknown", -1)

\* lines 1532-1533 and 1723-1725: the optional failed word address
failed_addr_of(response_data) ==
    IF Len(response_data) >= 5 /\ response_data[2] = 1 /\ response_data[3] = 2
    THEN FromBytes(Slice(response_data, 3, 5))
    ELSE -1

\* the response with mid 0x11 whatever its result code: success always
write_status_result_always_success(response_data) ==
    IF Len(response_data) = 0
    THEN WriteResult(FALSE, -1, "empty_response_data", -1)
    ELSE WriteResult(TRUE, response_data[1], result_msg_of(response_data[1]),
                     failed_addr_of(response_data))

\* lines 1499-1536 and 1700-1729: the result for a response with mid 0x11
write_status_result(response_data) ==
    IF Len(response_data) = 0
    THEN WriteResult(FALSE, -1, "empty_response_data", -1)
    ELSE WriteResult(response_data[1] = 0, response_data[1],
                     result_msg_of(response_data[1]),
                     failed_addr_of(response_data))

\* lines 1539-1551 and 1732-1738: the result for an error notification
write_error_result(response_data) ==
    WriteResult(FALSE, IF Len(response_data) > 0 THEN response_data[1] ELSE -1,
                "reader_error", -1)

Undecided == [decided |-> FALSE, result |-> InitialWriteResult]
Decided(result) == [decided |-> TRUE, result |-> result]

\* the loop "for received_frame in frames_received" from frame k on.  A frame
\* parse_frame refuses ends write_epc_tag (try/finally lets the ValueError
\* reach line 1562: result code -3) and is skipped by write_epc_tag_auto
\* (except ValueError: continue, lines 1740-1742); propagate tells the two.
RECURSIVE write_response(_, _, _)
write_response(frames, k, propagate) ==
    IF k > Len(frames) THEN Undecided
    ELSE LET resp == parse_frame(frames[k]) IN
         IF ~resp.valid
         THEN IF propagate
              THEN Decided(WriteResult(FALSE, -3, "validation_or_parsing_error", -1))
              ELSE write_response(frames, k + 1, propagate)
         ELSE IF resp.mid = BitAnd(MID_WRITE_EPC_TAG_COMMAND, 255)
         THEN Decided(write_status_result(resp.data))
         ELSE IF resp.mid = MID_ERROR_NOTIFICATION
         THEN Decided(write_error_result(resp.data))
         ELSE write_response(frames, k + 1, propagate)

(***************************************************************************)
(* State.                                                                  *)
(***************************************************************************)
VARIABLES
    portOpen,   \* UARTConnection.ser is open
    rxq,        \* bytes waiting in the serial input buffer
    running,    \* NationReader._inventory_running
    onTag,      \* NationReader._on_tag is set (not None)
    thread,     \* NationReader._inventory_thread: id of the last thread, 0 = none
    workers,    \* per thread id: position, rolling buffer, frames being handled
    fg,         \* the calling thread: operation, position, locals
    tagLog,     \* every _on_tag invocation, in order: [worker, tag]
    rxLog,      \* every non-empty chunk a worker received, in order: [worker, data]
    wireLog,    \* every frame the reader put on the wire, in order
    devRest,    \* rest of a frame the reader is still transmitting
    opsLeft,    \* calls the caller may still make
    devLeft,    \* frames the reader may still transmit
    ioLeft,     \* read I/O errors the line may still produce
    obs,        \* whether this run records tagLog, rxLog and wireLog
    cin,        \* codec check: the inputs
    cout,       \* codec check: the result
    cop,        \* codec check: the function applied
    uart,       \* UARTConnection: holder of self.lock, and each thread's call
    app         \* RFIDWebController: its inventory_thread, the disconnect() call

readerVars == <<portOpen, rxq, running, onTag, thread, workers, fg,
                tagLog, rxLog, wireLog, devRest, opsLeft, devLeft, ioLeft, obs,
                uart, app>>
codecVars == <<cin, cout, cop>>
vars == <<portOpen, rxq, running, onTag, thread, workers, fg,
          tagLog, rxLog, wireLog, devRest, opsLeft, devLeft, ioLeft, obs,
          cin, cout, cop, uart, app>>

WorkerIds == 1..MaxWorkers

NoWorker == [pc |-> "unborn", buffer |-> << >>, frames |-> << >>, err |-> "none"]

FgIdle == [op |-> "none", pc |-> "idle"]

Record(log, e) == IF obs THEN Append(log, e) ELSE log

Alive(w) == workers[w].pc \in {"check", "recv", "dispatch"}

\* a worker that is inside its read loop (past the while test)
Active(w) == workers[w].pc \in {"recv", "dispatch"}

ThreadAlive == thread # 0 /\ Alive(thread)

NoSession == ~running /\ \A w \in WorkerIds : ~Alive(w)

\* the threads that call the transport of one UARTConnection
UartThreads == 1..2

NoCall == [op |-> "none", at |-> "idle"]

\* self.lock free (0) and no thread inside a transport method
UartIdle == [lock |-> 0, calls |-> [t \in UartThreads |-> NoCall]]

\* the controller connected, no inventory thread yet, disconnect() not called
AppIdle == [inventory_thread |-> "none", pc |-> "idle", attempt |-> 0]

ReaderInit ==
    /\ uart = UartIdle
    /\ app = AppIdle
    /\ portOpen = FALSE
    /\ rxq = << >>
    /\ running = FALSE
    /\ onTag = FALSE
    /\ thread = 0
    /\ workers = [w \in WorkerIds |-> NoWorker]
    /\ fg = FgIdle
    /\ tagLog = << >>
    /\ rxLog = << >>
    /\ wireLog = << >>
    /\ devRest = << >>
    /\ opsLeft = MaxOps
    /\ devLeft = MaxDev
    /\ ioLeft = 0
    /\ obs = FALSE

CodecIdle ==
    /\ cin = << >>
    /\ cout = << >>
    /\ cop = "none"

(***************************************************************************)
(* The reader on the other end of the line: frames it can transmit.        *)
(***************************************************************************)
TagPayload(epc) == ToBytes(Len(epc), 2) \o epc \o <<48, 0>> \o <<1>>

TagA == build_frame(4608, TagPayload(<<171, 205>>), FALSE, FALSE)
TagB == build_frame(4608, TagPayload(<<18, 52>>), FALSE, FALSE)
EndByCommand == build_frame(MID_READ_END, <<1>>, FALSE, FALSE)
EndByHardware == build_frame(MID_READ_END, <<2>>, FALSE, FALSE)
StopOk == build_frame(MID_STOP_INVENTORY, <<0>>, FALSE, FALSE)
StopErr == build_frame(MID_STOP_INVENTORY, <<1>>, FALSE, FALSE)
PowerOk == build_frame(MID_CONFIGURE_READER_POWER, <<0>>, FALSE, FALSE)

TagFrames == {TagA, TagB}

(***************************************************************************)
(* UARTConnection.receive(size): the exception it raises or the bytes.     *)
(***************************************************************************)
receive(size) ==
    IF ~portOpen THEN [exc |-> "RuntimeError", data |-> << >>, rest |-> rxq]
    ELSE [exc |-> "none", data |-> Slice(rxq, 0, size),
          rest |-> Slice(rxq, size, Len(rxq))]

(***************************************************************************)
(* The inventory worker: _receive_inventory_loop_optimized.                *)
(***************************************************************************)
\* a loop that goes on reading whatever the flag says
WorkerCheckIgnoresFlag(w) ==
    /\ workers[w].pc = "check"
    /\ workers' = [workers EXCEPT ![w].pc = "recv"]
    /\ UNCHANGED <<portOpen, rxq, running, onTag, thread, fg, tagLog, rxLog,
                   wireLog, devRest, opsLeft, devLeft, ioLeft>>
    /\ UNCHANGED <<obs, cin, cout, cop, uart, app>>

\* while self._inventory_running
WorkerCheck(w) ==
    /\ workers[w].pc = "check"
    /\ workers' = [workers EXCEPT ![w].pc = IF running THEN "recv" ELSE "done",
                                  ![w].buffer = IF running THEN @ ELSE << >>]
    /\ UNCHANGED <<portOpen, rxq, running, onTag, thread, fg, tagLog, rxLog,
                   wireLog, devRest, opsLeft, devLeft, ioLeft>>
    /\ UNCHANGED <<obs, cin, cout, cop, uart, app>>

\* self.receive(128) raising RuntimeError (port not open): caught by
\* "except Exception", the loop goes on
WorkerReceiveClosed(w) ==
    /\ workers[w].pc = "recv"
    /\ receive(128).exc # "none"
    /\ workers' = [workers EXCEPT ![w].pc = "check", ![w].err = receive(128).exc]
    /\ UNCHANGED <<portOpen, rxq, running, onTag, thread, fg, tagLog, rxLog,
                   wireLog, devRest, opsLeft, devLeft, ioLeft>>
    /\ UNCHANGED <<obs, cin, cout, cop, uart, app>>

\* self.receive(128) raising IOError (read error on the line): the same handler
WorkerReceiveIOError(w) ==
    /\ workers[w].pc = "recv"
    /\ portOpen
    /\ ioLeft > 0
    /\ ioLeft' = ioLeft - 1
    /\ workers' = [workers EXCEPT ![w].pc = "check", ![w].err = "IOError"]
    /\ UNCHANGED <<portOpen, rxq, running, onTag, thread, fg, tagLog, rxLog,
                   wireLog, devRest, opsLeft, devLeft>>
    /\ UNCHANGED <<obs, cin, cout, cop, uart, app>>

\* self.receive(128) returning; buffer += raw_data; extract; trim
WorkerReceive(w) ==
    /\ workers[w].pc = "recv"
    /\ receive(128).exc = "none"
    /\ LET raw_data == receive(128).data
           buffer == append_chunk(workers[w].buffer, raw_data)
           frames == extract_valid_frames(buffer)
       IN  /\ rxq' = receive(128).rest
           /\ IF Len(raw_data) = 0
              THEN /\ workers' = [workers EXCEPT ![w].pc = "check", ![w].err = "none"]
                   /\ UNCHANGED rxLog
              ELSE /\ workers' = [workers EXCEPT
                          ![w].pc = IF Len(frames) = 0 THEN "check" ELSE "dispatch",
                          ![w].buffer = trim_buffer(buffer, frames),
                          ![w].frames = frames,
                          ![w].err = "none"]
                   /\ rxLog' = Record(rxLog, [worker |-> w, data |-> raw_data])
    /\ UNCHANGED <<portOpen, running, onTag, thread, fg, tagLog,
                   wireLog, devRest, opsLeft, devLeft, ioLeft>>
    /\ UNCHANGED <<obs, cin, cout, cop, uart, app>>

\* self._on_tag(tag).  The application's callback leaves the caller's locals
\* alone; the closures of write_epc_to_target_auto (lines 1864-1870 and
\* 1935-1938) set found_event or verified_event for the awaited EPC
on_tag(tag) ==
    IF fg.op # "write_epc_to_target_auto" THEN fg
    ELSE IF fg.cbk = "scan" /\ tag.epc = upper(fg.arg.target_tag_epc)
    THEN [fg EXCEPT !.found = TRUE]
    ELSE IF fg.cbk = "verify" /\ tag.epc = upper(fg.arg.new_epc_hex)
    THEN [fg EXCEPT !.verified = TRUE]
    ELSE fg

\* one iteration of "for frame in frames"
WorkerDispatch(w) ==
    /\ workers[w].pc = "dispatch"
    /\ LET frame == Head(workers[w].frames)
           rest == Tail(workers[w].frames)
           act == inventory_frame_action(frame)
       IN  IF act.kind = "end"
           THEN /\ running' = FALSE
                /\ workers' = [workers EXCEPT ![w].pc = "done", ![w].frames = << >>,
                                              ![w].buffer = << >>]
                /\ UNCHANGED <<tagLog, fg>>
           ELSE /\ workers' = [workers EXCEPT
                       ![w].pc = IF Len(rest) = 0 THEN "check" ELSE "dispatch",
                       ![w].frames = rest]
                /\ tagLog' = IF act.kind = "tag" /\ onTag
                             THEN Record(tagLog, [worker |-> w, tag |-> act.tag])
                             ELSE tagLog
                /\ fg' = IF act.kind = "tag" /\ onTag THEN on_tag(act.tag) ELSE fg
                /\ UNCHANGED running
    /\ UNCHANGED <<portOpen, rxq, onTag, thread, rxLog,
                   wireLog, devRest, opsLeft, devLeft, ioLeft>>
    /\ UNCHANGED <<obs, cin, cout, cop, uart, app>>

(***************************************************************************)
(* The caller's thread.  One call at a time; fg.pc is its position.        *)
(***************************************************************************)
FgFree == fg.pc \in {"idle", "done"}

AntennaLists == {<<1>>, <<33>>}

\* the routine the caller is in: start_inventory_with_mode and write_epc_tag
\* are called by the application or by write_epc_to_target_auto
InStart(f) ==
    \/ f.op = "start"
    \/ f.op = "write_epc_to_target_auto" /\ f.phase \in {"scan", "verify"}

InWrite(f) ==
    \/ f.op = "write_epc_tag"
    \/ f.op = "write_epc_to_target_auto" /\ f.phase = "write"

\* write_epc_tag returning its result: to the application, or into
\* result.update(write_result), line 1928
WriteReturn(f, result) ==
    IF f.op = "write_epc_tag" THEN [f EXCEPT !.pc = "done", !.result = result]
    ELSE [f EXCEPT !.pc = "t_written", !.result = result, !.write_result = result]

\* write_epc_tag going on whatever stop_inventory returned
write_after_stop_unchecked(f, r) == [f EXCEPT !.pc = "w_flush", !.stopped = r]

\* write_epc_tag lines 1411-1414: "if not self.stop_inventory(): ... return
\* result"
write_after_stop(f, r) ==
    IF r THEN [f EXCEPT !.pc = "w_flush", !.stopped = TRUE]
    ELSE WriteReturn(f, [InitialWriteResult EXCEPT !.result_msg = "failed_to_stop"])

\* start_inventory_with_mode returning r: to the application, to line 1876
\* (False: return result, before the try) or to line 1941 (False: return
\* result, inside the try)
StartReturn(f, r) ==
    IF f.op = "start" THEN [f EXCEPT !.pc = "done", !.ret = r]
    ELSE IF f.phase = "scan"
    THEN IF r THEN [f EXCEPT !.pc = "t_wait"]
         ELSE [f EXCEPT !.pc = "done", !.result.result_msg = "failed_to_start_scan"]
    ELSE [f EXCEPT !.pc = IF r THEN "t_vwait" ELSE "t_finally"]

\* the routines that query the reader after a stop_inventory() whose result
\* they do not look at
QueryOps == {"query_reader_power", "query_baseband_profile", "get_profile"}

\* start_inventory_with_mode going on whatever its stop_inventory() returned
StopReturnUnchecked(r, conf) ==
    LET f == [fg EXCEPT !.conf = conf] IN
    IF InStart(f) THEN [f EXCEPT !.pc = "st_set", !.ret = r]
    ELSE IF InWrite(f) THEN write_after_stop(f, r)
    ELSE IF f.op \in {"set_rf_band", "configure_baseband"}
    THEN IF r THEN [f EXCEPT !.pc = "i_send", !.attempt = 0, !.stopped = TRUE]
         ELSE [f EXCEPT !.pc = "done", !.ret = FALSE]
    ELSE IF f.op = "write_epc_to_target_auto"
    THEN [f EXCEPT !.pc = IF f.phase = "scan_stop" THEN "t_validate"
                          ELSE IF f.phase = "verify_stop" THEN "t_finally"
                          ELSE "done"]
    ELSE [f EXCEPT !.pc = "done", !.ret = r]

\* stop_inventory returning r to its caller
StopReturn(r, conf) ==
    LET f == [fg EXCEPT !.conf = conf] IN
    IF InStart(f)
    THEN IF r THEN [f EXCEPT !.pc = "st_set", !.ret = r] ELSE StartReturn(f, FALSE)
    ELSE IF InWrite(f) THEN write_after_stop(f, r)
    ELSE IF f.op \in QueryOps THEN [f EXCEPT !.pc = "p_send", !.stopped = r]
    ELSE IF f.op \in {"set_rf_band", "configure_baseband"}
    THEN IF r THEN [f EXCEPT !.pc = "i_send", !.attempt = 0, !.stopped = TRUE]
         ELSE [f EXCEPT !.pc = "done", !.ret = FALSE]
    ELSE IF f.op = "write_epc_to_target_auto"
    THEN [f EXCEPT !.pc = IF f.phase = "scan_stop" THEN "t_validate"
                          ELSE IF f.phase = "verify_stop" THEN "t_finally"
                          ELSE "done"]
    ELSE [f EXCEPT !.pc = "done", !.ret = r]

NoConf == [decided |-> FALSE]

StopLocals(op) ==
    [op |-> op, pc |-> "s_join", attempt |-> 0, ret |-> FALSE, sends |-> 0,
     idle |-> NoSession, open |-> portOpen, conf |-> NoConf,
     ids |-> << >>, cb |-> FALSE, phase |-> "none", cbk |-> "app"]

\* the locals of a call that begins with stop_inventory() and goes on
GuardedLocals(op, arg) ==
    [StopLocals(op) EXCEPT !.pc = "s_enter"]
    @@ [arg |-> arg, warg |-> arg, stopped |-> FALSE, idle_ok |-> FALSE,
        sent |-> << >>, buffer |-> << >>, result |-> InitialWriteResult,
        found |-> FALSE, verified |-> FALSE, seen |-> FALSE, write_result |-> InitialWriteResult]

\* a stop_inventory() that leaves the flag as it is
StopEnterKeepsFlag ==
    /\ fg.pc = "s_enter"
    /\ fg' = [fg EXCEPT !.pc = "s_join", !.attempt = 0]
    /\ UNCHANGED <<portOpen, rxq, running, onTag, thread, workers, tagLog, rxLog,
                   wireLog, devRest, opsLeft, devLeft, ioLeft>>
    /\ UNCHANGED <<obs, cin, cout, cop, uart, app>>

\* stop_inventory() called from inside a routine: self._inventory_running =
\* False, line 1280
StopEnter ==
    /\ fg.pc = "s_enter"
    /\ running' = FALSE
    /\ fg' = [fg EXCEPT !.pc = "s_join", !.attempt = 0]
    /\ UNCHANGED <<portOpen, rxq, onTag, thread, workers, tagLog, rxLog,
                   wireLog, devRest, opsLeft, devLeft, ioLeft>>
    /\ UNCHANGED <<obs, cin, cout, cop, uart, app>>

\* stop_inventory(), step 1: self._inventory_running = False
CallStop ==
    /\ FgFree
    /\ opsLeft > 0
    /\ opsLeft' = opsLeft - 1
    /\ fg' = StopLocals("stop")
    /\ running' = FALSE
    /\ UNCHANGED <<portOpen, rxq, onTag, thread, workers, tagLog, rxLog,
                   wireLog, devRest, devLeft, ioLeft>>
    /\ UNCHANGED <<obs, cin, cout, cop, uart, app>>

\* the worker is about to hand a tag to the registered callback, which may
\* take any time
InCallback(w) ==
    /\ workers[w].pc = "dispatch"
    /\ onTag
    /\ ~(fg.op = "write_epc_to_target_auto" /\ fg.cbk \in {"scan", "verify"})
    /\ inventory_frame_action(Head(workers[w].frames)).kind = "tag"

\* join(timeout=1): the thread has ended, or the second has passed while the
\* worker is still inside a callback
StopJoin ==
    /\ fg.pc = "s_join"
    /\ \/ ~ThreadAlive
       \/ ThreadAlive /\ InCallback(thread)
    /\ fg' = [fg EXCEPT !.pc = "s_flush"]
    /\ UNCHANGED <<portOpen, rxq, running, onTag, thread, workers, tagLog, rxLog,
                   wireLog, devRest, opsLeft, devLeft, ioLeft>>
    /\ UNCHANGED <<obs, cin, cout, cop, uart, app>>

\* self.uart.flush_input()
StopFlush ==
    /\ fg.pc = "s_flush"
    /\ rxq' = << >>
    /\ fg' = [fg EXCEPT !.pc = "s_send"]
    /\ UNCHANGED <<portOpen, running, onTag, thread, workers, tagLog, rxLog,
                   wireLog, devRest, opsLeft, devLeft, ioLeft>>
    /\ UNCHANGED <<obs, cin, cout, cop, uart, app>>

\* self.send(stop_frame): a closed port raises, and stop returns False
StopSend ==
    /\ fg.pc = "s_send"
    /\ fg' = IF portOpen
             THEN [fg EXCEPT !.pc = "s_recv", !.sends = @ + 1]
             ELSE StopReturn(FALSE, NoConf)
    /\ UNCHANGED <<portOpen, rxq, running, onTag, thread, workers, tagLog, rxLog,
                   wireLog, devRest, opsLeft, devLeft, ioLeft>>
    /\ UNCHANGED <<obs, cin, cout, cop, uart, app>>

\* one undecided attempt of the confirmation loop
StopRetry ==
    IF fg.attempt + 1 >= STOP_ATTEMPTS
    THEN StopReturn(FALSE, NoConf)
    ELSE [fg EXCEPT !.attempt = @ + 1]

\* one attempt of "for attempt in range(10)": receive(256), extract, scan
StopRecv ==
    /\ fg.pc = "s_recv"
    /\ receive(256).exc = "none"
    /\ rxq' = receive(256).rest
    /\ LET frames == extract_valid_frames(receive(256).data)
           conf == stop_confirmation(frames, 1)
       IN  fg' = IF conf.decided THEN StopReturn(conf.result, conf)
                 ELSE StopRetry
    /\ UNCHANGED <<portOpen, running, onTag, thread, workers, tagLog, rxLog,
                   wireLog, devRest, opsLeft, devLeft, ioLeft>>
    /\ UNCHANGED <<obs, cin, cout, cop, uart, app>>

\* an attempt whose receive raises RuntimeError (port not open): next attempt
StopRecvClosed ==
    /\ fg.pc = "s_recv"
    /\ receive(256).exc # "none"
    /\ fg' = StopRetry
    /\ UNCHANGED <<portOpen, rxq, running, onTag, thread, workers, tagLog, rxLog,
                   wireLog, devRest, opsLeft, devLeft, ioLeft>>
    /\ UNCHANGED <<obs, cin, cout, cop, uart, app>>

\* start_inventory_with_mode(antenna_mask, callback): begins with stop_inventory()
CallStart(ids, cb) ==
    /\ FgFree
    /\ opsLeft > 0
    /\ Cardinality({w \in WorkerIds : workers[w].pc # "unborn"}) < MaxWorkers
    /\ opsLeft' = opsLeft - 1
    /\ fg' = [StopLocals("start") EXCEPT !.ids = ids, !.cb = cb]
    /\ running' = FALSE
    /\ UNCHANGED <<portOpen, rxq, onTag, thread, workers, tagLog, rxLog,
                   wireLog, devRest, devLeft, ioLeft>>
    /\ UNCHANGED <<obs, cin, cout, cop, uart, app>>

\* lines 1124-1135: set the flag and the callback, build the mask (a bad id
\* raises ValueError: return False), build the frame
StartSet ==
    /\ fg.pc = "st_set"
    /\ running' = TRUE
    /\ onTag' = fg.cb
    /\ fg' = IF build_antenna_mask(fg.ids).exc # "none"
             THEN StartReturn([fg EXCEPT !.cbk = IF fg.phase = "none" THEN @ ELSE fg.phase],
                              FALSE)
             ELSE [fg EXCEPT !.pc = "st_send",
                             !.cbk = IF fg.phase = "none" THEN @ ELSE fg.phase]
    /\ UNCHANGED <<portOpen, rxq, thread, workers, tagLog, rxLog,
                   wireLog, devRest, opsLeft, devLeft, ioLeft>>
    /\ UNCHANGED <<obs, cin, cout, cop, uart, app>>

\* line 1137: self.send(frame); a closed port raises: return False
StartSend ==
    /\ fg.pc = "st_send"
    /\ fg' = IF portOpen THEN [fg EXCEPT !.pc = "st_spawn"]
             ELSE StartReturn(fg, FALSE)
    /\ UNCHANGED <<portOpen, rxq, running, onTag, thread, workers, tagLog, rxLog,
                   wireLog, devRest, opsLeft, devLeft, ioLeft>>
    /\ UNCHANGED <<obs, cin, cout, cop, uart, app>>

\* lines 1140-1144: create and start the thread, return True
StartSpawn ==
    /\ fg.pc = "st_spawn"
    /\ LET new == CHOOSE w \in WorkerIds :
                    /\ workers[w].pc = "unborn"
                    /\ \A v \in WorkerIds : v < w => workers[v].pc # "unborn"
       IN  /\ thread' = new
           /\ workers' = [workers EXCEPT ![new].pc = "check"]
    /\ fg' = StartReturn(fg, TRUE)
    /\ UNCHANGED <<portOpen, rxq, running, onTag, tagLog, rxLog,
                   wireLog, devRest, opsLeft, devLeft, ioLeft>>
    /\ UNCHANGED <<obs, cin, cout, cop, uart, app>>

\* NationReader.open()
OpenPort ==
    /\ FgFree
    /\ ~portOpen
    /\ portOpen' = TRUE
    /\ UNCHANGED <<rxq, running, onTag, thread, workers, fg, tagLog, rxLog,
                   wireLog, devRest, opsLeft, devLeft, ioLeft>>
    /\ UNCHANGED <<obs, cin, cout, cop, uart, app>>

\* NationReader.close(): flush_input, then close the port
ClosePort ==
    /\ FgFree
    /\ portOpen
    /\ opsLeft > 0
    /\ opsLeft' = opsLeft - 1
    /\ portOpen' = FALSE
    /\ rxq' = << >>
    /\ devRest' = << >>
    /\ UNCHANGED <<running, onTag, thread, workers, fg, tagLog, rxLog,
                   wireLog, devLeft, ioLeft>>
    /\ UNCHANGED <<obs, cin, cout, cop, uart, app>>

\* self.send(frame) raising IOError (a write error on the line), line 1137:
\* start_inventory_with_mode returns False
StartSendIOError ==
    /\ fg.pc = "st_send"
    /\ portOpen
    /\ ioLeft > 0
    /\ ioLeft' = ioLeft - 1
    /\ fg' = StartReturn(fg, FALSE)
    /\ UNCHANGED <<portOpen, rxq, running, onTag, thread, workers, tagLog, rxLog,
                   wireLog, devRest, opsLeft, devLeft>>
    /\ UNCHANGED <<obs, cin, cout, cop, uart, app>>

(***************************************************************************)
(* write_epc_tag.                                                          *)
(***************************************************************************)
WriteArgs(epc_hex, antenna_id, match_epc_hex, access_password, start_word) ==
    [epc_hex |-> epc_hex, antenna_id |-> antenna_id, match_epc_hex |-> match_epc_hex,
     access_password |-> access_password, start_word |-> start_word]

\* lines 1562-1571: the result for an exception
write_exception_result(exc) ==
    IF exc = "ValueError"
    THEN WriteResult(FALSE, -3, "validation_or_parsing_error", -1)
    ELSE WriteResult(FALSE, -99, "unexpected_exception", -1)

\* write_epc_tag(...): its first statement is stop_inventory()
Call_write_epc_tag(warg) ==
    /\ FgFree
    /\ opsLeft > 0
    /\ opsLeft' = opsLeft - 1
    /\ fg' = GuardedLocals("write_epc_tag", warg)
    /\ UNCHANGED <<portOpen, rxq, running, onTag, thread, workers, tagLog, rxLog,
                   wireLog, devRest, devLeft, ioLeft>>
    /\ UNCHANGED <<obs, cin, cout, cop, uart, app>>

\* lines 1415-1467: flush_input, then the payload and the frame
WriteFlush ==
    /\ fg.pc = "w_flush"
    /\ rxq' = << >>
    /\ LET p == write_epc_tag_payload(fg.warg.epc_hex, fg.warg.antenna_id,
                                      fg.warg.match_epc_hex, fg.warg.access_password,
                                      fg.warg.start_word)
       IN  fg' = IF p.exc # "none" THEN WriteReturn(fg, write_exception_result(p.exc))
                 ELSE [fg EXCEPT !.pc = "w_send"]
    /\ UNCHANGED <<portOpen, running, onTag, thread, workers, tagLog, rxLog,
                   wireLog, devRest, opsLeft, devLeft, ioLeft>>
    /\ UNCHANGED <<obs, cin, cout, cop, uart, app>>

\* line 1471: self.send(frame); a closed port raises RuntimeError
WriteSend ==
    /\ fg.pc = "w_send"
    /\ LET p == write_epc_tag_payload(fg.warg.epc_hex, fg.warg.antenna_id,
                                      fg.warg.match_epc_hex, fg.warg.access_password,
                                      fg.warg.start_word)
           frame == build_frame(MID_WRITE_EPC_TAG_COMMAND, p.payload, FALSE, FALSE)
       IN  fg' = IF portOpen
                 THEN [fg EXCEPT !.pc = "w_recv", !.sent = Append(@, frame),
                                 !.buffer = << >>]
                 ELSE WriteReturn(fg, write_exception_result("RuntimeError"))
    /\ UNCHANGED <<portOpen, rxq, running, onTag, thread, workers, tagLog, rxLog,
                   wireLog, devRest, opsLeft, devLeft, ioLeft>>
    /\ UNCHANGED <<obs, cin, cout, cop, uart, app>>

\* one turn of "while time.time() < deadline", lines 1476-1554
WriteRecv ==
    /\ fg.pc = "w_recv"
    /\ IF receive(256).exc # "none"
       THEN /\ fg' = WriteReturn(fg, write_exception_result(receive(256).exc))
            /\ UNCHANGED rxq
       ELSE LET raw_received == receive(256).data
                receive_buffer == fg.buffer \o raw_received
                frames_received == extract_valid_frames(receive_buffer)
                resp == write_response(frames_received, 1, TRUE)
            IN  /\ rxq' = receive(256).rest
                /\ fg' = IF Len(raw_received) = 0 THEN fg
                         ELSE IF resp.decided THEN WriteReturn(fg, resp.result)
                         ELSE [fg EXCEPT !.buffer =
                                           trim_buffer(receive_buffer, frames_received)]
    /\ UNCHANGED <<portOpen, running, onTag, thread, workers, tagLog, rxLog,
                   wireLog, devRest, opsLeft, devLeft, ioLeft>>
    /\ UNCHANGED <<obs, cin, cout, cop, uart, app>>

\* the deadline passes, lines 1557-1560
WriteTimeout ==
    /\ fg.pc = "w_recv"
    /\ fg' = WriteReturn(fg, WriteResult(FALSE, -2, "timeout", -1))
    /\ UNCHANGED <<portOpen, rxq, running, onTag, thread, workers, tagLog, rxLog,
                   wireLog, devRest, opsLeft, devLeft, ioLeft>>
    /\ UNCHANGED <<obs, cin, cout, cop, uart, app>>

(***************************************************************************)
(* is_idle, set_rf_band and configure_baseband.                            *)
(***************************************************************************)
IDLE_RETRY == 3
MID_SET_RF_BAND == 515
MID_CONFIG_BASEBAND == 523

\* the configuration going on whatever is_idle returned
IdleReturnUnchecked(f, r) == [f EXCEPT !.pc = "g_send", !.idle_ok = r]

\* is_idle returning r into set_rf_band (line 2463) or configure_baseband
\* (line 2916)
IdleReturn(f, r) ==
    IF f.op = "is_idle" THEN [f EXCEPT !.pc = "done", !.ret = r]
    ELSE IF r THEN [f EXCEPT !.pc = "g_send", !.idle_ok = TRUE]
    ELSE [f EXCEPT !.pc = "done", !.ret = FALSE]

\* the retry argument: the application's, or the default of the call inside
\* set_rf_band and configure_baseband
IdleRetries(f) == IF f.op = "is_idle" THEN f.arg ELSE IDLE_RETRY

\* the loop of is_idle giving up with True when its attempts are used up
IdleRetryAssumesIdle(f) ==
    IF f.attempt + 1 >= IdleRetries(f) THEN IdleReturn(f, TRUE)
    ELSE [f EXCEPT !.pc = "i_send", !.attempt = @ + 1]

\* the next turn of "for attempt in range(retry)"
IdleRetry(f) ==
    IF f.attempt + 1 >= IdleRetries(f) THEN IdleReturn(f, FALSE)
    ELSE [f EXCEPT !.pc = "i_send", !.attempt = @ + 1]

\* is_idle(retry) called by the application, line 2843: no turn of the loop
\* when retry is 0
Call_is_idle(retry) ==
    /\ FgFree
    /\ opsLeft > 0
    /\ opsLeft' = opsLeft - 1
    /\ fg' = IF retry <= 0
             THEN [GuardedLocals("is_idle", retry) EXCEPT !.pc = "done"]
             ELSE [GuardedLocals("is_idle", retry) EXCEPT !.pc = "i_send"]
    /\ UNCHANGED <<portOpen, rxq, running, onTag, thread, workers, tagLog, rxLog,
                   wireLog, devRest, devLeft, ioLeft>>
    /\ UNCHANGED <<obs, cin, cout, cop, uart, app>>

\* is_idle lines 2845-2849: flush_input and send the stop frame; the send
\* raising goes to the next attempt
IdleSend ==
    /\ fg.pc = "i_send"
    /\ rxq' = << >>
    /\ fg' = IF portOpen THEN [fg EXCEPT !.pc = "i_recv", !.sends = @ + 1]
             ELSE IdleRetry(fg)
    /\ UNCHANGED <<portOpen, running, onTag, thread, workers, tagLog, rxLog,
                   wireLog, devRest, opsLeft, devLeft, ioLeft>>
    /\ UNCHANGED <<obs, cin, cout, cop, uart, app>>

\* is_idle lines 2851-2877: receive(64), parse_frame on what was read
IdleRecv ==
    /\ fg.pc = "i_recv"
    /\ rxq' = IF receive(64).exc = "none" THEN receive(64).rest ELSE rxq
    /\ LET raw_response == receive(64).data
           parsed_response == parse_frame(raw_response)
           read == [fg EXCEPT !.buffer = raw_response]
       IN  fg' = IF receive(64).exc # "none" \/ Len(raw_response) = 0
                    \/ ~parsed_response.valid
                 THEN IdleRetry(read)
                 ELSE IF /\ parsed_response.mid = MID_STOP_OPERATION
                         /\ Len(parsed_response.data) > 0
                         /\ parsed_response.data[1] = 0
                 THEN [read EXCEPT !.pc = "i_settle"]
                 ELSE IdleRetry(read)
    /\ UNCHANGED <<portOpen, running, onTag, thread, workers, tagLog, rxLog,
                   wireLog, devRest, opsLeft, devLeft, ioLeft>>
    /\ UNCHANGED <<obs, cin, cout, cop, uart, app>>

\* is_idle lines 2865-2866: time.sleep(settle_delay), then return True
IdleSettle ==
    /\ fg.pc = "i_settle"
    /\ fg' = IdleReturn(fg, TRUE)
    /\ UNCHANGED <<portOpen, rxq, running, onTag, thread, workers, tagLog, rxLog,
                   wireLog, devRest, opsLeft, devLeft, ioLeft>>
    /\ UNCHANGED <<obs, cin, cout, cop, uart, app>>

\* set_rf_band line 2454 and configure_baseband lines 2897-2908: the checks
\* of the arguments (band_code, or <<speed, q_value, session, inventory_flag>>)
config_args_valid(op, arg) ==
    IF op = "set_rf_band" THEN 0 <= arg /\ arg <= 8
    ELSE /\ arg[1] \in {0, 1, 2, 3, 4, 255}
         /\ 0 <= arg[2] /\ arg[2] <= 15
         /\ arg[3] \in {0, 1, 2, 3}
         /\ arg[4] \in {0, 1, 2}

\* lines 2471-2472 and 2924-2933
config_frame(op, arg) ==
    IF op = "set_rf_band" THEN build_frame(MID_SET_RF_BAND, <<arg>>, FALSE, FALSE)
    ELSE build_frame(MID_CONFIG_BASEBAND,
                     <<1, arg[1], 2, arg[2], 3, arg[3], 4, arg[4]>>, FALSE, FALSE)

\* set_rf_band(band_code) and configure_baseband(speed, q_value, session,
\* inventory_flag): refused arguments return False at once
Call_config(op, arg) ==
    /\ FgFree
    /\ opsLeft > 0
    /\ opsLeft' = opsLeft - 1
    /\ fg' = IF config_args_valid(op, arg) THEN GuardedLocals(op, arg)
             ELSE [GuardedLocals(op, arg) EXCEPT !.pc = "done"]
    /\ UNCHANGED <<portOpen, rxq, running, onTag, thread, workers, tagLog, rxLog,
                   wireLog, devRest, devLeft, ioLeft>>
    /\ UNCHANGED <<obs, cin, cout, cop, uart, app>>

\* lines 2467-2477 and 2920-2937: flush_input, build the frame, send it
ConfigSend ==
    /\ fg.pc = "g_send"
    /\ rxq' = << >>
    /\ fg' = IF portOpen
             THEN [fg EXCEPT !.pc = "g_recv", !.buffer = << >>,
                             !.sent = Append(@, config_frame(fg.op, fg.arg))]
             ELSE [fg EXCEPT !.pc = "done", !.ret = FALSE]
    /\ UNCHANGED <<portOpen, running, onTag, thread, workers, tagLog, rxLog,
                   wireLog, devRest, opsLeft, devLeft, ioLeft>>
    /\ UNCHANGED <<obs, cin, cout, cop, uart, app>>

\* the loop over the frames of a response: set_rf_band lines 2499-2534 skips
\* what parse_frame refuses and what is not its response; configure_baseband
\* lines 2948-2984 lets the ValueError end the call
RECURSIVE config_response(_, _, _)
config_response(op, frames, k) ==
    IF k > Len(frames) THEN [decided |-> FALSE, ret |-> FALSE]
    ELSE LET parsed_response == parse_frame(frames[k])
             code == IF parsed_response.valid /\ Len(parsed_response.data) > 0
                     THEN parsed_response.data[1] ELSE -1
         IN
         IF op = "set_rf_band"
         THEN IF /\ parsed_response.valid
                 /\ parsed_response.category = 2 /\ parsed_response.mid = 3
                 /\ code >= 0
              THEN [decided |-> TRUE, ret |-> (code = 0)]
              ELSE config_response(op, frames, k + 1)
         ELSE IF ~parsed_response.valid THEN [decided |-> TRUE, ret |-> FALSE]
         ELSE IF parsed_response.mid = 11 /\ parsed_response.category \in {1, 2}
         THEN [decided |-> TRUE, ret |-> (code = 0)]
         ELSE IF parsed_response.mid = MID_ERROR_NOTIFICATION
         THEN [decided |-> TRUE, ret |-> FALSE]
         ELSE config_response(op, frames, k + 1)

\* set_rf_band lines 2484-2497: one turn of the wait; configure_baseband
\* lines 2940-2987: its single receive(64)
ConfigRecv ==
    /\ fg.pc = "g_recv"
    /\ rxq' = IF receive(64).exc = "none" THEN receive(64).rest ELSE rxq
    /\ LET chunk == receive(64).data
           receive_buffer == fg.buffer \o chunk
           frames == extract_valid_frames(receive_buffer)
           resp == config_response(fg.op, frames, 1)
       IN  fg' = IF receive(64).exc # "none" THEN [fg EXCEPT !.pc = "done", !.ret = FALSE]
                 ELSE IF resp.decided THEN [fg EXCEPT !.pc = "done", !.ret = resp.ret]
                 ELSE IF fg.op = "configure_baseband"
                 THEN [fg EXCEPT !.pc = "done", !.ret = FALSE]
                 ELSE [fg EXCEPT !.buffer = trim_buffer(receive_buffer, frames)]
    /\ UNCHANGED <<portOpen, running, onTag, thread, workers, tagLog, rxLog,
                   wireLog, devRest, opsLeft, devLeft, ioLeft>>
    /\ UNCHANGED <<obs, cin, cout, cop, uart, app>>

\* set_rf_band line 2537: the second has passed
ConfigTimeout ==
    /\ fg.pc = "g_recv"
    /\ fg.op = "set_rf_band"
    /\ fg' = [fg EXCEPT !.pc = "done", !.ret = FALSE]
    /\ UNCHANGED <<portOpen, rxq, running, onTag, thread, workers, tagLog, rxLog,
                   wireLog, devRest, opsLeft, devLeft, ioLeft>>
    /\ UNCHANGED <<obs, cin, cout, cop, uart, app>>

(***************************************************************************)
(* write_epc_to_target_auto: scan for the target, write, verify.           *)
(***************************************************************************)
TargetArgs(target_tag_epc, new_epc_hex, verify, overwrite_pc, prefix_words) ==
    [target_tag_epc |-> target_tag_epc, new_epc_hex |-> new_epc_hex,
     verify |-> verify, overwrite_pc |-> overwrite_pc, prefix_words |-> prefix_words]

\* validate_epc_hex, lines 1987-1995: whether it returns rather than raises
validate_epc_hex(epc_hex) ==
    LET digits == SelectSeq(strip(epc_hex), LAMBDA c : c # " ")
    IN  /\ \A i \in 1..Len(digits) : hex_digit_value(digits[i]) >= 0
        /\ Len(digits) % 2 = 0

\* calculate_start_word, lines 2028-2033
calculate_start_word(overwrite_pc, prefix_words) ==
    (IF overwrite_pc THEN 1 ELSE 2) + prefix_words

\* lines 1852-1879: the result, the scan callback, and
\* start_inventory_with_mode(antenna_mask=[1], callback=tag_callback_for_scan)
Call_write_epc_to_target_auto(arg) ==
    /\ FgFree
    /\ opsLeft > 0
    /\ opsLeft' = opsLeft - 1
    /\ fg' = [GuardedLocals("write_epc_to_target_auto", arg) EXCEPT
                !.phase = "scan", !.ids = <<1>>, !.cb = TRUE,
                !.result.result_msg = "operation_failed"]
    /\ UNCHANGED <<portOpen, rxq, running, onTag, thread, workers, tagLog, rxLog,
                   wireLog, devRest, devLeft, ioLeft>>
    /\ UNCHANGED <<obs, cin, cout, cop, uart, app>>

\* the write going on whether or not the target was seen
scan_wait_unchecked(f) == [f EXCEPT !.phase = "scan_stop", !.pc = "s_enter"]

\* lines 1883-1890: found_event.wait(timeout=scan_timeout); not set: return
\* the "not found" result; set: stop_inventory()
scan_wait(f) ==
    IF f.found THEN [f EXCEPT !.phase = "scan_stop", !.pc = "s_enter"]
    ELSE [f EXCEPT !.pc = "t_finally", !.result.result_msg = "target_not_found"]

TargetWait ==
    /\ fg.pc = "t_wait"
    /\ fg' = scan_wait(fg)
    /\ UNCHANGED <<portOpen, rxq, running, onTag, thread, workers, tagLog, rxLog,
                   wireLog, devRest, opsLeft, devLeft, ioLeft>>
    /\ UNCHANGED <<obs, cin, cout, cop, uart, app>>

\* lines 1893-1925: validate both EPCs, compute the start word and the PC
\* word, call write_epc_tag
TargetValidate ==
    /\ fg.pc = "t_validate"
    /\ fg' = IF ~(validate_epc_hex(fg.arg.new_epc_hex)
                  /\ validate_epc_hex(fg.arg.target_tag_epc))
             THEN [fg EXCEPT !.pc = "t_finally",
                             !.result.result_msg = "epc_validation_error"]
             ELSE [fg EXCEPT !.phase = "write", !.pc = "s_enter", !.stopped = FALSE,
                             !.warg = WriteArgs(full_epc_hex(fg.arg.new_epc_hex), 1,
                                                fg.arg.target_tag_epc, << >>,
                                                calculate_start_word(fg.arg.overwrite_pc,
                                                                     fg.arg.prefix_words))]
    /\ UNCHANGED <<portOpen, rxq, running, onTag, thread, workers, tagLog, rxLog,
                   wireLog, devRest, opsLeft, devLeft, ioLeft>>
    /\ UNCHANGED <<obs, cin, cout, cop, uart, app>>

\* lines 1931-1945 and 1957: verify only after a successful write, with
\* start_inventory_with_mode(antenna_mask=[1], callback=verify_callback)
TargetAfterWrite ==
    /\ fg.pc = "t_written"
    /\ fg' = IF fg.arg.verify /\ fg.result.success
             THEN [fg EXCEPT !.phase = "verify", !.pc = "s_enter"]
             ELSE [fg EXCEPT !.pc = "t_finally"]
    /\ UNCHANGED <<portOpen, rxq, running, onTag, thread, workers, tagLog, rxLog,
                   wireLog, devRest, opsLeft, devLeft, ioLeft>>
    /\ UNCHANGED <<obs, cin, cout, cop, uart, app>>

\* the verification deciding the reported success
verify_wait_reported(f) ==
    [f EXCEPT !.phase = "verify_stop", !.pc = "s_enter", !.seen = f.verified,
              !.result.success = f.verified]

\* lines 1949-1955: verified_event.wait(timeout=1.5), whose outcome is
\* printed, then stop_inventory()
verify_wait(f) ==
    [f EXCEPT !.phase = "verify_stop", !.pc = "s_enter", !.seen = f.verified]

TargetVerifyWait ==
    /\ fg.pc = "t_vwait"
    /\ fg' = verify_wait(fg)
    /\ UNCHANGED <<portOpen, rxq, running, onTag, thread, workers, tagLog, rxLog,
                   wireLog, devRest, opsLeft, devLeft, ioLeft>>
    /\ UNCHANGED <<obs, cin, cout, cop, uart, app>>

\* the finally clause, lines 1963-1968
TargetFinally ==
    /\ fg.pc = "t_finally"
    /\ fg' = IF running THEN [fg EXCEPT !.phase = "finally", !.pc = "s_enter"]
             ELSE [fg EXCEPT !.pc = "done"]
    /\ UNCHANGED <<portOpen, rxq, running, onTag, thread, workers, tagLog, rxLog,
                   wireLog, devRest, opsLeft, devLeft, ioLeft>>
    /\ UNCHANGED <<obs, cin, cout, cop, uart, app>>

(***************************************************************************)
(* The reader transmitting.                                                *)
(***************************************************************************)
\* a whole frame arrives in the input buffer
DevEmit(f) ==
    /\ portOpen
    /\ devLeft > 0
    /\ Len(devRest) = 0
    /\ devLeft' = devLeft - 1
    /\ rxq' = rxq \o f
    /\ wireLog' = Record(wireLog, f)
    /\ UNCHANGED <<portOpen, running, onTag, thread, workers, fg, tagLog, rxLog,
                   devRest, opsLeft, ioLeft>>
    /\ UNCHANGED <<obs, cin, cout, cop, uart, app>>

\* the first k bytes of a frame arrive, the rest is still on its way
DevEmitSplit(f, k) ==
    /\ portOpen
    /\ devLeft > 0
    /\ Len(devRest) = 0
    /\ k \in 1..(Len(f) - 1)
    /\ devLeft' = devLeft - 1
    /\ rxq' = rxq \o Slice(f, 0, k)
    /\ devRest' = Slice(f, k, Len(f))
    /\ wireLog' = Record(wireLog, f)
    /\ UNCHANGED <<portOpen, running, onTag, thread, workers, fg, tagLog, rxLog,
                   opsLeft, ioLeft>>
    /\ UNCHANGED <<obs, cin, cout, cop, uart, app>>

\* the rest of the frame arrives
DevRest ==
    /\ portOpen
    /\ Len(devRest) > 0
    /\ rxq' = rxq \o devRest
    /\ devRest' = << >>
    /\ UNCHANGED <<portOpen, running, onTag, thread, workers, fg, tagLog, rxLog,
                   wireLog, opsLeft, devLeft, ioLeft>>
    /\ UNCHANGED <<obs, cin, cout, cop, uart, app>>

(***************************************************************************)
(* Specification of the inventory engine: start, stop, open, close, the    *)
(* workers and the reader transmitting whole frames.                       *)
(***************************************************************************)
InvFrames == {TagA, EndByHardware, StopOk}

Init == ReaderInit /\ CodecIdle

Next ==
    \/ CallStop
    \/ StopJoin
    \/ StopFlush
    \/ StopSend
    \/ StopRecv
    \/ \E ids \in AntennaLists : CallStart(ids, TRUE)
    \/ StartSet
    \/ StartSend
    \/ StartSpawn
    \/ OpenPort
    \/ \E f \in InvFrames : DevEmit(f)
    \/ \E w \in WorkerIds : WorkerCheck(w)
    \/ \E w \in WorkerIds : WorkerReceive(w)
    \/ \E w \in WorkerIds : WorkerDispatch(w)

Spec == Init /\ [][Next]_vars

(***************************************************************************)
(* Claims about the inventory engine.                                      *)
(***************************************************************************)
\* C2: after any sequence of start_inventory_with_mode() and stop_inventory()
\* calls, at most one inventory worker is inside its read loop at any time.
C2_AtMostOneActiveWorker ==
    Cardinality({w \in WorkerIds : Active(w)}) <= 1

\* C5: stop_inventory() called while no session is running (port open)
\* returns True, and has not sent the stop command more than once.
C5_StopWhenIdleSucceeds ==
    (fg.op = "stop" /\ fg.pc = "done" /\ fg.idle /\ fg.open)
        => (fg.ret = TRUE /\ fg.sends <= 1)

\* C6: stop_inventory() returns True only on a stop response with result
\* code 0 or a read-end notification with reason 1 (stopped by command).
C6_StopTrueOnlyWhenConfirmed ==
    (fg.op = "stop" /\ fg.pc = "done" /\ fg.ret = TRUE)
        => /\ fg.conf.decided
           /\ \/ fg.conf.mid = MID_STOP_OPERATION /\ fg.conf.code = 0
              \/ fg.conf.mid \in all_read_end_mids /\ fg.conf.code = 1

(***************************************************************************)
(* Specification of a running session: start_inventory_with_mode has       *)
(* returned True, the worker reads while the reader transmits frames (the  *)
(* first of them may arrive split at any byte), the line may fail and the  *)
(* port may be closed under the worker.                                    *)
(***************************************************************************)
StreamFrames == {TagA, EndByCommand}

\* the frames that may arrive split
SplitFrames == {TagA}

StreamInit ==
    /\ uart = UartIdle
    /\ app = AppIdle
    /\ portOpen = TRUE
    /\ rxq = << >>
    /\ running = TRUE
    /\ onTag = TRUE
    /\ thread = 1
    /\ workers = [w \in WorkerIds |->
                    IF w = 1 THEN [NoWorker EXCEPT !.pc = "check"] ELSE NoWorker]
    /\ fg = FgIdle
    /\ tagLog = << >>
    /\ rxLog = << >>
    /\ wireLog = << >>
    /\ devRest = << >>
    /\ opsLeft = 1
    /\ devLeft = MaxStream
    /\ ioLeft = MaxIoErr
    /\ obs = TRUE
    /\ CodecIdle

StreamNext ==
    \/ \E w \in WorkerIds : WorkerCheck(w)
    \/ \E w \in WorkerIds : WorkerReceive(w)
    \/ \E w \in WorkerIds : WorkerReceiveClosed(w)
    \/ \E w \in WorkerIds : WorkerReceiveIOError(w)
    \/ \E w \in WorkerIds : WorkerDispatch(w)
    \/ \E f \in StreamFrames : DevEmit(f)
    \/ /\ Len(wireLog) = 0
       /\ \E f \in SplitFrames : \E k \in 1..(Len(f) - 1) : DevEmitSplit(f, k)
    \/ DevRest
    \/ ClosePort

SpecStream == StreamInit /\ [][StreamNext]_vars

(***************************************************************************)
(* Claims about a running session.                                         *)
(***************************************************************************)
ChunksOf(w) == SelectSeq(rxLog, LAMBDA e : e.worker = w)

TagsOf(w) == SelectSeq(tagLog, LAMBDA e : e.worker = w)

Chunk(w, data) == [worker |-> w, data |-> data]

\* the tag a valid tag frame carries
TagIn(f) == parse_epc(parse_frame(f).data)

\* C3: a valid tag frame that reaches the worker split in two chunks, at any
\* byte position, gives no onTag call after the first chunk and exactly one,
\* with the frame's tag, once the second chunk has been handled.
C3_SplitTagFrameDeliveredOnce ==
    \A f \in SplitFrames : \A k \in 1..(Len(f) - 1) :
        /\ rxLog = <<Chunk(1, Slice(f, 0, k))>> => tagLog = << >>
        /\ rxLog = <<Chunk(1, Slice(f, 0, k)), Chunk(1, Slice(f, k, Len(f)))>>
             => IF workers[1].pc = "dispatch"
                THEN tagLog = << >> /\ workers[1].frames = <<f>>
                ELSE tagLog = <<[worker |-> 1, tag |-> TagIn(f)]>>

\* a tag frame split inside its payload has been received in two chunks and
\* delivered
C3_Witness ==
    \E k \in 8..13 :
        /\ rxLog = <<Chunk(1, Slice(TagA, 0, k)), Chunk(1, Slice(TagA, k, Len(TagA)))>>
        /\ workers[1].pc = "check"
        /\ Len(tagLog) = 1

\* the tag frames among a sequence of frames, as tags
RECURSIVE TagsOnWire(_)
TagsOnWire(fs) ==
    IF Len(fs) = 0 THEN << >>
    ELSE IF Head(fs) \in TagFrames THEN <<TagIn(Head(fs))>> \o TagsOnWire(Tail(fs))
    ELSE TagsOnWire(Tail(fs))

RECURSIVE TagsDelivered(_)
TagsDelivered(log) ==
    IF Len(log) = 0 THEN << >> ELSE <<Head(log).tag>> \o TagsDelivered(Tail(log))

\* a is b with some elements left out (frames lost to a flush are left out)
RECURSIVE IsSubseq(_, _)
IsSubseq(a, b) ==
    IF Len(a) = 0 THEN TRUE
    ELSE IF Len(b) = 0 THEN FALSE
    ELSE IF Head(a) = Head(b) THEN IsSubseq(Tail(a), Tail(b))
    ELSE IsSubseq(a, Tail(b))

\* C4: within one session the tags handed to onTag are, in order, tag
\* frames received on the wire: each delivered at most once, none reordered.
C4_TagsInWireOrder ==
    IsSubseq(TagsDelivered(tagLog), TagsOnWire(wireLog))

\* C29: after each read the worker's buffer holds no frame it has already
\* extracted, and the worker hands to onTag no more tags than tag frames
\* have arrived on the wire, two byte-identical consecutive frames included.
C29_BufferTrimmedByConsumedBytes ==
    \A w \in WorkerIds :
        /\ workers[w].pc \in {"check", "dispatch"}
              => extract_valid_frames(workers[w].buffer) = << >>
        /\ Len(TagsOf(w)) <= Len(TagsOnWire(wireLog))

\* a read-end notification: a valid frame whose message id is MID.READ_END
IsReadEnd(frame) ==
    LET p == parse_frame(frame) IN
    p.valid /\ 256 * p.category + p.mid = MID_READ_END

\* C7: the step in which the worker handles a read-end notification sets the
\* inventory state to idle and ends the worker without a callback; a worker
\* that has ended stays ended, receives nothing and calls onTag no more.
C7_ReadEndTerminatesWorker ==
    [][\A w \in WorkerIds :
         /\ (/\ workers[w].pc = "dispatch"
             /\ IsReadEnd(Head(workers[w].frames))
             /\ workers'[w] # workers[w])
              => (running' = FALSE /\ workers'[w].pc = "done" /\ tagLog' = tagLog)
         /\ workers[w].pc = "done"
              => (/\ workers'[w].pc = "done"
                  /\ TagsOf(w)' = TagsOf(w)
                  /\ ChunksOf(w)' = ChunksOf(w))]_vars

\* the worker has ended on a read-end notification that a tag frame followed
\* in the same chunk, and the tag was not delivered
C7_Witness ==
    /\ workers[1].pc = "done"
    /\ ~running
    /\ \E f \in TagFrames : rxLog = <<Chunk(1, EndByCommand \o f)>>
    /\ tagLog = << >>

\* C9: a receive that fails inside the worker (port not open, read error) is
\* terminal: the inventory state is idle and the worker does not go back
\* into its loop.
C9_ReceiveFailureIsTerminal ==
    \A w \in WorkerIds :
        workers[w].err # "none"
            => (~running /\ workers[w].pc \in {"check", "done"})

(***************************************************************************)
(* Foreground commands: configure_reader_power, enable_ant (with           *)
(* query_enabled_ant_mask) and select_profile.  fg.sent lists the frames   *)
(* the call has written to the port.                                       *)
(***************************************************************************)
QUERY_ANT_MASK_MID == 514
SET_ANT_MASK_MID == 515
SELECT_PROFILE_MID == 522

CmdOps == {"configure_reader_power", "enable_ant", "disable_ant", "select_profile"}

CmdLocals(op, arg, valid, first) ==
    [op |-> op, pc |-> IF valid THEN first ELSE "done", ret |-> FALSE,
     sent |-> << >>, arg |-> arg, mask |-> <<0, 0, 0, 0>>]

CmdReturn(r) == [fg EXCEPT !.pc = "done", !.ret = r]

\* the map checked for being non-empty only
power_args_valid_nonempty(antenna_powers) == Len(antenna_powers) > 0

\* configure_reader_power lines 1011-1034: the checks of the map (a sequence
\* of <<antenna id, power>> pairs here)
power_args_valid(antenna_powers) ==
    /\ Len(antenna_powers) > 0
    /\ \A i \in 1..Len(antenna_powers) :
          /\ 1 <= antenna_powers[i][1] /\ antenna_powers[i][1] <= 64
          /\ 0 <= antenna_powers[i][2] /\ antenna_powers[i][2] <= 33

RECURSIVE power_payload(_)
power_payload(antenna_powers) ==
    IF Len(antenna_powers) = 0 THEN << >>
    ELSE ToBytes(Head(antenna_powers)[1], 1) \o ToBytes(Head(antenna_powers)[2], 1)
         \o power_payload(Tail(antenna_powers))

PowerInputs == {<< >>, <<<<1, 30>>>>, <<<<65, 30>>>>}
AntInputs == {1, 33}
ProfileInputs == {1, 3}

Call_configure_reader_power(antenna_powers) ==
    /\ FgFree
    /\ opsLeft > 0
    /\ opsLeft' = opsLeft - 1
    /\ fg' = CmdLocals("configure_reader_power", antenna_powers,
                       power_args_valid(antenna_powers), "c_flush")
    /\ UNCHANGED <<portOpen, rxq, running, onTag, thread, workers, tagLog, rxLog,
                   wireLog, devRest, devLeft, ioLeft>>
    /\ UNCHANGED <<obs, cin, cout, cop, uart, app>>

Call_enable_ant(ant_id) ==
    /\ FgFree
    /\ opsLeft > 0
    /\ opsLeft' = opsLeft - 1
    /\ fg' = CmdLocals("enable_ant", ant_id, 1 <= ant_id /\ ant_id <= 32, "q_flush")
    /\ UNCHANGED <<portOpen, rxq, running, onTag, thread, workers, tagLog, rxLog,
                   wireLog, devRest, devLeft, ioLeft>>
    /\ UNCHANGED <<obs, cin, cout, cop, uart, app>>

\* disable_ant lines 2193-2195: the check of the id, then the query
Call_disable_ant(ant_id) ==
    /\ FgFree
    /\ opsLeft > 0
    /\ opsLeft' = opsLeft - 1
    /\ fg' = CmdLocals("disable_ant", ant_id, 1 <= ant_id /\ ant_id <= 32, "q_flush")
    /\ UNCHANGED <<portOpen, rxq, running, onTag, thread, workers, tagLog, rxLog,
                   wireLog, devRest, devLeft, ioLeft>>
    /\ UNCHANGED <<obs, cin, cout, cop, uart, app>>

Call_select_profile(profile_id) ==
    /\ FgFree
    /\ opsLeft > 0
    /\ opsLeft' = opsLeft - 1
    /\ fg' = CmdLocals("select_profile", profile_id, profile_id \in {0, 1, 2}, "c_flush")
    /\ UNCHANGED <<portOpen, rxq, running, onTag, thread, workers, tagLog, rxLog,
                   wireLog, devRest, devLeft, ioLeft>>
    /\ UNCHANGED <<obs, cin, cout, cop, uart, app>>

\* query_enabled_ant_mask returning the mask: to enable_ant and disable_ant,
\* or to get_profile (line 2319), which goes on with query_reader_power()
MaskReturn(f, mask) ==
    [f EXCEPT !.pc = IF f.op = "get_profile" THEN "s_enter" ELSE "c_flush",
              !.mask = mask]

\* query_enabled_ant_mask: flush_input
QueryFlush ==
    /\ fg.pc = "q_flush"
    /\ rxq' = << >>
    /\ fg' = [fg EXCEPT !.pc = "q_send"]
    /\ UNCHANGED <<portOpen, running, onTag, thread, workers, tagLog, rxLog,
                   wireLog, devRest, opsLeft, devLeft, ioLeft>>
    /\ UNCHANGED <<obs, cin, cout, cop, uart, app>>

\* query_enabled_ant_mask: send; a closed port raises and the query returns 0
QuerySend ==
    /\ fg.pc = "q_send"
    /\ fg' = IF portOpen
             THEN [fg EXCEPT !.pc = "q_recv",
                     !.sent = Append(@, build_frame(QUERY_ANT_MASK_MID, << >>, FALSE, FALSE))]
             ELSE MaskReturn(fg, <<0, 0, 0, 0>>)
    /\ UNCHANGED <<portOpen, rxq, running, onTag, thread, workers, tagLog, rxLog,
                   wireLog, devRest, opsLeft, devLeft, ioLeft>>
    /\ UNCHANGED <<obs, cin, cout, cop, uart, app>>

\* query_enabled_ant_mask lines 2057-2090: the mask of the first frame with
\* mid 0x02 and at least 2 data bytes, else 0
RECURSIVE queried_mask(_, _)
queried_mask(frames, k) ==
    IF k > Len(frames) THEN <<0, 0, 0, 0>>
    ELSE LET parsed_frame == parse_frame(frames[k]) IN
         IF ~parsed_frame.valid THEN <<0, 0, 0, 0>>
         ELSE IF parsed_frame.mid = 2 /\ Len(parsed_frame.data) >= 2
         THEN Slice(parsed_frame.data \o <<0, 0>>, 0, 4)
         ELSE queried_mask(frames, k + 1)

\* query_enabled_ant_mask: receive(64) and the scan; back in enable_ant
QueryRecv ==
    /\ fg.pc = "q_recv"
    /\ IF receive(64).exc # "none"
       THEN /\ fg' = MaskReturn(fg, <<0, 0, 0, 0>>)
            /\ UNCHANGED rxq
       ELSE /\ rxq' = receive(64).rest
            /\ fg' = MaskReturn(fg, queried_mask(extract_valid_frames(receive(64).data), 1))
    /\ UNCHANGED <<portOpen, running, onTag, thread, workers, tagLog, rxLog,
                   wireLog, devRest, opsLeft, devLeft, ioLeft>>
    /\ UNCHANGED <<obs, cin, cout, cop, uart, app>>

\* the frame the command sends
command_frame(c) ==
    IF c.op = "configure_reader_power"
    THEN build_frame(MID_CONFIGURE_READER_POWER, power_payload(c.arg), FALSE, FALSE)
    ELSE IF c.op = "enable_ant"
    THEN build_frame(SET_ANT_MASK_MID, mask_with_bit(c.mask, c.arg) \o <<255, 1>>,
                     FALSE, FALSE)
    ELSE IF c.op = "disable_ant"
    THEN build_frame(SET_ANT_MASK_MID, mask_without_bit(c.mask, c.arg) \o <<255, 1>>,
                     FALSE, FALSE)
    ELSE build_frame(SELECT_PROFILE_MID, <<c.arg>>, FALSE, FALSE)

\* whether the command takes the parsed response as success
command_accepts(c, parsed) ==
    IF c.op = "configure_reader_power"
    THEN parsed.mid = MID_CONFIGURE_READER_POWER % 256
         /\ Len(parsed.data) >= 1 /\ parsed.data[1] = 0
    ELSE IF c.op \in {"enable_ant", "disable_ant"}
    THEN parsed.mid = 3 /\ Len(parsed.data) > 0 /\ parsed.data[1] = 0
    ELSE parsed.mid = 10 /\ Len(parsed.data) > 0 /\ parsed.data[1] = c.arg

\* self.uart.flush_input()
CmdFlush ==
    /\ fg.pc = "c_flush"
    /\ rxq' = << >>
    /\ fg' = [fg EXCEPT !.pc = "c_send"]
    /\ UNCHANGED <<portOpen, running, onTag, thread, workers, tagLog, rxLog,
                   wireLog, devRest, opsLeft, devLeft, ioLeft>>
    /\ UNCHANGED <<obs, cin, cout, cop, uart, app>>

\* self.uart.send(frame); a closed port raises: return False
CmdSend ==
    /\ fg.pc = "c_send"
    /\ fg' = IF portOpen
             THEN [fg EXCEPT !.pc = "c_recv", !.sent = Append(@, command_frame(fg))]
             ELSE CmdReturn(FALSE)
    /\ UNCHANGED <<portOpen, rxq, running, onTag, thread, workers, tagLog, rxLog,
                   wireLog, devRest, opsLeft, devLeft, ioLeft>>
    /\ UNCHANGED <<obs, cin, cout, cop, uart, app>>

\* self.uart.receive(64), parse_frame on all of it, the verdict
CmdRecv ==
    /\ fg.pc = "c_recv"
    /\ IF receive(64).exc # "none"
       THEN /\ fg' = CmdReturn(FALSE)
            /\ UNCHANGED rxq
       ELSE /\ rxq' = receive(64).rest
            /\ LET raw_response == receive(64).data
                   parsed == parse_frame(raw_response)
               IN  fg' = IF Len(raw_response) = 0 \/ ~parsed.valid
                         THEN CmdReturn(FALSE)
                         ELSE CmdReturn(command_accepts(fg, parsed))
    /\ UNCHANGED <<portOpen, running, onTag, thread, workers, tagLog, rxLog,
                   wireLog, devRest, opsLeft, devLeft, ioLeft>>
    /\ UNCHANGED <<obs, cin, cout, cop, uart, app>>

(***************************************************************************)
(* Specification of foreground commands issued during a session:           *)
(* start_inventory_with_mode has returned True, the caller issues commands *)
(* while the worker reads and the reader transmits.                        *)
(***************************************************************************)
AntMaskIs == build_frame(QUERY_ANT_MASK_MID, <<0, 0, 0, 1>>, FALSE, FALSE)
AntOk == build_frame(SET_ANT_MASK_MID, <<0>>, FALSE, FALSE)
ProfileOk == build_frame(SELECT_PROFILE_MID, <<1>>, FALSE, FALSE)

CmdFrames == {TagA, PowerOk, AntMaskIs, AntOk, ProfileOk}

CmdInit ==
    /\ uart = UartIdle
    /\ app = AppIdle
    /\ portOpen = TRUE
    /\ rxq = << >>
    /\ running = TRUE
    /\ onTag = TRUE
    /\ thread = 1
    /\ workers = [w \in WorkerIds |->
                    IF w = 1 THEN [NoWorker EXCEPT !.pc = "check"] ELSE NoWorker]
    /\ fg = FgIdle
    /\ tagLog = << >>
    /\ rxLog = << >>
    /\ wireLog = << >>
    /\ devRest = << >>
    /\ opsLeft = MaxOps
    /\ devLeft = MaxDev
    /\ ioLeft = 0
    /\ obs = FALSE
    /\ CodecIdle

CmdNext ==
    \/ \E a \in PowerInputs : Call_configure_reader_power(a)
    \/ \E a \in AntInputs : Call_enable_ant(a)
    \/ \E a \in ProfileInputs : Call_select_profile(a)
    \/ QueryFlush
    \/ QuerySend
    \/ QueryRecv
    \/ CmdFlush
    \/ CmdSend
    \/ CmdRecv
    \/ \E f \in CmdFrames : DevEmit(f)
    \/ \E w \in WorkerIds : WorkerCheck(w)
    \/ \E w \in WorkerIds : WorkerReceive(w)
    \/ \E w \in WorkerIds : WorkerDispatch(w)

SpecCmd == CmdInit /\ [][CmdNext]_vars

\* C8: no foreground command writes a request to the port while an
\* inventory worker is running.
C8_NoCommandSendWhileRunning ==
    [][(/\ fg.pc \in {"q_send", "c_send"}
        /\ fg'.pc \in {"q_recv", "c_recv"}
        /\ Len(fg'.sent) > Len(fg.sent))
          => ~(running /\ \E w \in WorkerIds : Alive(w))]_vars

(***************************************************************************)
(* Specification of the frame codec: the functions applied to inputs drawn *)
(* from bounded sets.                                                      *)
(***************************************************************************)
RECURSIVE SeqsUpTo(_, _)
SeqsUpTo(S, n) ==
    IF n = 0 THEN {<< >>}
    ELSE SeqsUpTo(S, n - 1) \cup {Append(q, x) : q \in [1..(n - 1) -> S], x \in S}

CodecCategories == {2, 18, 32}
CodecCodes == {0, 49, 255}
CodecMids == {256 * c + m : c \in CodecCategories, m \in CodecCodes}
CodecBytes == {0, 90, 255}

CodecInputs ==
    [mid : CodecMids, payload : SeqsUpTo(CodecBytes, MaxPayloadLen),
     rs485 : BOOLEAN, mid2 : {4608, 767}, payload2 : {<< >>, <<1>>}]

Frame1 == build_frame(cin.mid, cin.payload, cin.rs485, FALSE)
Frame2 == build_frame(cin.mid2, cin.payload2, cin.rs485, FALSE)

CodecInit ==
    /\ ReaderInit
    /\ cin \in CodecInputs
    /\ cout = << >>
    /\ cop = "none"

\* parse_frame(build_frame(mid, payload, rs485))
ApplyParseBuild ==
    /\ cop = "none"
    /\ cop' = "parse_build"
    /\ cout' = parse_frame(Frame1)
    /\ UNCHANGED cin
    /\ UNCHANGED readerVars

\* extract_valid_frames(frame1 + frame2)
ApplyExtractPair ==
    /\ cop = "none"
    /\ cop' = "extract_pair"
    /\ cout' = extract_scan(Frame1 \o Frame2, 0, << >>)
    /\ UNCHANGED cin
    /\ UNCHANGED readerVars

\* a frame with its two trailing CRC bytes replaced by the CRC plus x
CrcFlips == {1, 256, 65535}

corrupt_crc(frame, x) ==
    LET n == Len(frame)
        crc == FromBytes(SubSeq(frame, n - 1, n))
    IN  SubSeq(frame, 1, n - 2) \o ToBytes((crc + x) % 65536, 2)

\* extract_valid_frames(frame1 with a corrupted CRC + frame2)
ApplyExtractCorrupt ==
    /\ cop = "none"
    /\ cop' = "extract_corrupt"
    /\ \E x \in CrcFlips :
          cout' = [bad |-> corrupt_crc(Frame1, x),
                   frames |-> extract_valid_frames(corrupt_crc(Frame1, x) \o Frame2)]
    /\ UNCHANGED cin
    /\ UNCHANGED readerVars

\* byte strings near a frame: the frame, a truncation, a wrong header, a
\* declared length one too large, a corrupted CRC, a trailing byte
Perturbations ==
    {<<"none", 0>>, <<"header", 0>>, <<"length", 0>>, <<"tail", 0>>}
    \cup {<<"cut", k>> : k \in {0, 5, 8, 9}}
    \cup {<<"crc", x>> : x \in CrcFlips}

perturb(frame, p) ==
    LET a == IF (frame[4] \div 32) % 2 = 1 THEN 1 ELSE 0 IN
    IF p[1] = "header" THEN [frame EXCEPT ![1] = 0]
    ELSE IF p[1] = "length" THEN [frame EXCEPT ![7 + a] = (@ + 1) % 256]
    ELSE IF p[1] = "tail" THEN frame \o <<0>>
    ELSE IF p[1] = "cut" THEN SubSeq(frame, 1, Min(p[2], Len(frame)))
    ELSE IF p[1] = "crc" THEN corrupt_crc(frame, p[2])
    ELSE frame

\* parse_frame(raw) on a byte string near frame1
ApplyParseRaw ==
    /\ cop = "none"
    /\ cop' = "parse_raw"
    /\ \E p \in Perturbations :
          cout' = [raw |-> perturb(Frame1, p), res |-> parse_frame(perturb(Frame1, p))]
    /\ UNCHANGED cin
    /\ UNCHANGED readerVars

CodecNext ==
    \/ ApplyParseBuild
    \/ ApplyExtractPair
    \/ ApplyExtractCorrupt
    \/ ApplyParseRaw

SpecCodec == CodecInit /\ [][CodecNext]_vars

\* C1: for every command id and payload, parse_frame(build_frame(M, P))
\* succeeds and yields the code, the category, the payload and its length.
C1_ParseBuildRoundTrip ==
    (cop = "parse_build" /\ ~cin.rs485)
        => /\ cout.valid
           /\ cout.mid = cin.mid % 256
           /\ cout.category = (cin.mid \div 256) % 256
           /\ cout.data = cin.payload
           /\ cout.data_length = Len(cin.payload)

\* C10: on the concatenation of two valid frames, extract_valid_frames
\* returns exactly the two frames in order and has consumed the whole buffer.
C10_ExtractTwoFrames ==
    (cop = "extract_pair" /\ parse_frame(Frame1).valid /\ parse_frame(Frame2).valid)
        => /\ cout.frames = <<Frame1, Frame2>>
           /\ cout.i = Len(Frame1) + Len(Frame2)

\* C11: on a frame with corrupted CRC bytes followed by one valid frame,
\* extract_valid_frames returns exactly the valid frame.
C11_CorruptThenValid ==
    (cop = "extract_corrupt" /\ parse_frame(Frame1).valid /\ parse_frame(Frame2).valid)
        => cout.frames = <<Frame2>>

\* the layout of a byte string of at least 9 bytes: whether an address byte
\* is present (bit 13 of the control word) and the declared payload length
AddrLen(raw) == IF (raw[4] \div 32) % 2 = 1 THEN 1 ELSE 0

DeclaredLen(raw) == 256 * raw[6 + AddrLen(raw)] + raw[7 + AddrLen(raw)]

FramingFault(raw) ==
    \/ Len(raw) < 9
    \/ raw[1] # 90
    \/ 7 + AddrLen(raw) + DeclaredLen(raw) + 2 > Len(raw)
    \/ crc16_ccitt(SubSeq(raw, 2, 7 + AddrLen(raw) + DeclaredLen(raw)))
         # 256 * raw[8 + AddrLen(raw) + DeclaredLen(raw)]
             + raw[9 + AddrLen(raw) + DeclaredLen(raw)]

\* C12: parse_frame fails exactly when raw is shorter than 9 bytes, does not
\* start with 0x5A, declares a length that does not fit with its CRC, or
\* carries a CRC other than the one recomputed; otherwise it returns the
\* frame's code, category, length and payload.
C12_ParseFailsExactlyOnFramingFault ==
    cop = "parse_raw"
        => /\ cout.res.valid <=> ~FramingFault(cout.raw)
           /\ cout.res.valid
                => /\ cout.res.mid = cout.raw[5]
                   /\ cout.res.category = cout.raw[4]
                   /\ cout.res.data_length = DeclaredLen(cout.raw)
                   /\ cout.res.data = SubSeq(cout.raw, 8 + AddrLen(cout.raw),
                                             7 + AddrLen(cout.raw) + DeclaredLen(cout.raw))

\* a frame with a payload and a wrong CRC has been refused for its CRC
C12_Witness ==
    /\ cop = "parse_raw"
    /\ Len(cin.payload) > 0
    /\ cout.raw = corrupt_crc(Frame1, 1)
    /\ ~cout.res.valid
    /\ cout.res.error = "crc_mismatch"

(***************************************************************************)
(* Specification of the write functions: the payload builders and the      *)
(* response mapping applied to inputs drawn from bounded sets.             *)
(***************************************************************************)
Chars(n, c) == [i \in 1..n |-> c]

\* the longest EPC the PC word can describe: 31 words, 124 characters
LongestEpcChars == 124

EpcHexInputs ==
    {<<"A", "B", "C", "D", "0", "2", "8", "4">>,
     <<"a", "b", "c", "d", "e">>,
     <<" ", "1", "2", " ">>,
     <<"1", "G">>,
     << >>,
     Chars(LongestEpcChars, "A"),
     Chars(LongestEpcChars + 1, "A"),
     Chars(LongestEpcChars + 4, "F")}

MatchHexInputs == {<< >>, <<"A", "B", "C", "D">>, <<" ", "a", "b">>, <<"A", "B", "C">>}
WriteAntennaInputs == {1, 32, 33}
PasswordInputs == {<< >>, <<18, 52, 86, 120>>, <<1, 0, 0, 0, 0>>}

WriteResp(data) == build_frame(MID_WRITE_EPC_TAG_COMMAND, data, FALSE, FALSE)
ErrorNote(data) == build_frame(MID_ERROR_NOTIFICATION, data, FALSE, FALSE)
\* a frame of a reader on an RS485 line: extract_valid_frames returns it,
\* parse_frame refuses it
Rs485Note == build_frame(MID_READ_END, <<0, 0>>, TRUE, FALSE)

ResponseInputs ==
    {<<WriteResp(<<c>>)>> : c \in 0..12}
    \cup {<<WriteResp(<<3, 1, 2, 0, 5>>)>>, <<WriteResp(<<0, 1, 2, 1, 0>>)>>,
          <<WriteResp(<<6, 2, 2, 0, 5>>)>>, <<WriteResp(<< >>)>>,
          <<ErrorNote(<<4>>)>>, <<ErrorNote(<<0>>)>>, <<ErrorNote(<< >>)>>,
          <<TagA, WriteResp(<<0>>)>>, <<WriteResp(<<7>>), WriteResp(<<0>>)>>,
          <<TagA>>, << >>,
          extract_valid_frames(Rs485Note \o WriteResp(<<0>>))}

WriteFnInputs ==
    [new_epc_hex : EpcHexInputs, match_epc_hex : MatchHexInputs,
     antenna_id : WriteAntennaInputs, access_password : PasswordInputs,
     frames : ResponseInputs]

WriteFnInit ==
    /\ ReaderInit
    /\ cin \in WriteFnInputs
    /\ cout = << >>
    /\ cop = "none"

\* write_epc_tag_auto's payload, next to the payload of write_epc_tag called
\* with the PC word and padded EPC, start word 1 and the same other arguments
ApplyWriteAuto ==
    /\ cop = "none"
    /\ cop' = "write_auto"
    /\ cout' = [auto |-> write_epc_tag_auto_payload(cin.new_epc_hex, cin.match_epc_hex,
                                                    cin.antenna_id, cin.access_password),
                tag |-> write_epc_tag_payload(full_epc_hex(cin.new_epc_hex), cin.antenna_id,
                                              cin.match_epc_hex, cin.access_password, 1)]
    /\ UNCHANGED <<cin, readerVars>>

\* the frames of one received chunk handed to the response loop of
\* write_epc_tag and to that of write_epc_tag_auto
ApplyWriteResponse ==
    /\ cop = "none"
    /\ cop' = "write_response"
    /\ cout' = [tag |-> write_response(cin.frames, 1, TRUE),
                auto |-> write_response(cin.frames, 1, FALSE)]
    /\ UNCHANGED <<cin, readerVars>>

WriteFnNext == ApplyWriteAuto \/ ApplyWriteResponse

SpecWriteFn == WriteFnInit /\ [][WriteFnNext]_vars

\* the data of the first frame of the chunk that is a write response (code
\* byte 0x11), when no error notification comes before it
RECURSIVE WriteResponseAt(_, _)
WriteResponseAt(frames, k) ==
    IF k > Len(frames) THEN 0
    ELSE IF ~parse_frame(frames[k]).valid THEN 0
    ELSE IF parse_frame(frames[k]).mid = 17 THEN k
    ELSE IF parse_frame(frames[k]).mid = 0 THEN 0
    ELSE WriteResponseAt(frames, k + 1)

WriteReasonNames ==
    <<"antenna_parameter_error", "match_parameter_error", "write_parameter_error",
      "crc_check_error", "insufficient_power", "data_area_overflow",
      "data_area_locked", "password_error", "other_tag_error", "tag_lost",
      "reader_send_error">>

\* C14: when the reader answers the write with a result code, write_epc_tag
\* reports success exactly when the code is 0, reports the code, gives each
\* code 0x01..0x0B its named reason with success false, and surfaces the
\* failed word address of a (0x01, 0x02, address) parameter after the code.
C14_SuccessIffCodeZero ==
    (cop = "write_response" /\ WriteResponseAt(cin.frames, 1) > 0)
      => LET data == parse_frame(cin.frames[WriteResponseAt(cin.frames, 1)]).data
             r == cout.tag.result
         IN  Len(data) > 0 =>
               /\ cout.tag.decided
               /\ r.success = (data[1] = 0)
               /\ r.result_code = data[1]
               /\ data[1] \in 1..11 =>
                     (~r.success /\ r.result_msg = WriteReasonNames[data[1]])
               /\ (Len(data) >= 5 /\ data[2] = 1 /\ data[3] = 2)
                     => r.failed_addr = 256 * data[4] + data[5]

\* a refused write (code 3) with the failed word address 5 has been reported
C14_Witness ==
    /\ cop = "write_response"
    /\ cin.frames = <<WriteResp(<<3, 1, 2, 0, 5>>)>>
    /\ ~cout.tag.result.success
    /\ cout.tag.result.result_code = 3
    /\ cout.tag.result.failed_addr = 5

\* the bytes write_epc_tag_auto is to write for an EPC of hexadecimal digits:
\* the PC word wordLen << 11 and the EPC zero-padded to wordLen words
ExpectedAutoData(epc) ==
    LET n == Len(epc)
        wordLen == (n + 3) \div 4
    IN  ToBytes(wordLen * 2048, 2) \o fromhex(epc \o Chars(4 * wordLen - n, "0")).bytes

IsHexString(s) == \A i \in 1..Len(s) : hex_digit_value(s[i]) >= 0

ValidWriteArguments ==
    /\ cin.antenna_id \in 1..32
    /\ fromhex(cin.match_epc_hex).ok
    /\ Len(cin.access_password) \in {0, 4}

\* the start word and the data bytes of a write payload
PayloadStartWord(payload) == FromBytes(Slice(payload, 5, 7))
PayloadData(payload) == Slice(payload, 9, 9 + FromBytes(Slice(payload, 7, 9)))

RfBandOk == build_frame(MID_SET_RF_BAND, <<0>>, FALSE, FALSE)
RfBandErr == build_frame(MID_SET_RF_BAND, <<1>>, FALSE, FALSE)
BasebandOk == build_frame(MID_CONFIG_BASEBAND, <<0>>, FALSE, FALSE)

\* what the reader transmits: tags while it inventories, then its answer to
\* the frame it was sent last
GuardFramesAt(pc) ==
    IF pc \in {"idle", "s_enter", "s_join", "s_flush", "s_send"} THEN {TagA}
    ELSE IF pc \in {"s_recv", "i_recv"} THEN {StopOk, StopErr}
    ELSE IF pc = "w_recv" THEN {WriteResp(<<0>>), WriteResp(<<3>>)}
    ELSE IF pc = "g_recv" THEN {RfBandOk, RfBandErr, BasebandOk}
    ELSE {}

GuardDev == \E f \in GuardFramesAt(fg.pc) : DevEmit(f)

GuardWriteInputs ==
    {WriteArgs(<<"1", "2", "3", "4">>, 1, <<"A", "B", "C", "D">>, << >>, 2),
     WriteArgs(<<"1", "2", "3">>, 1, << >>, << >>, 2)}

RfBandInputs == {1, 9}
BasebandInputs == {<<1, 4, 0, 0>>, <<1, 16, 0, 0>>}

GuardInit ==
    /\ uart = UartIdle
    /\ app = AppIdle
    /\ \E session \in {"running", "idle", "closed"} :
         /\ portOpen = (session # "closed")
         /\ running = (session = "running")
         /\ onTag = (session = "running")
         /\ thread = IF session = "running" THEN 1 ELSE 0
         /\ workers = [w \in WorkerIds |->
                         IF w = 1 /\ session = "running"
                         THEN [NoWorker EXCEPT !.pc = "check"] ELSE NoWorker]
    /\ rxq = << >>
    /\ fg = FgIdle
    /\ tagLog = << >>
    /\ rxLog = << >>
    /\ wireLog = << >>
    /\ devRest = << >>
    /\ opsLeft = 1
    /\ devLeft = MaxDev
    /\ ioLeft = 0
    /\ obs = FALSE
    /\ CodecIdle

GuardNext ==
    \/ \E warg \in GuardWriteInputs : Call_write_epc_tag(warg)
    \/ \E band_code \in RfBandInputs : Call_config("set_rf_band", band_code)
    \/ \E arg \in BasebandInputs : Call_config("configure_baseband", arg)
    \/ StopEnter
    \/ StopJoin
    \/ StopFlush
    \/ StopSend
    \/ StopRecv
    \/ WriteFlush
    \/ WriteSend
    \/ WriteRecv
    \/ WriteTimeout
    \/ IdleSend
    \/ IdleRecv
    \/ IdleSettle
    \/ ConfigSend
    \/ ConfigRecv
    \/ ConfigTimeout
    \/ GuardDev
    \/ \E w \in WorkerIds : WorkerCheck(w)
    \/ \E w \in WorkerIds : WorkerReceive(w)
    \/ \E w \in WorkerIds : WorkerDispatch(w)

SpecGuard == GuardInit /\ [][GuardNext]_vars

\* C13: write_epc_tag sends the write-EPC frame only when its own
\* stop_inventory() has returned True and the inventory state is not running,
\* before and after the send; when the stop is not confirmed it returns a
\* failure result and has sent no write frame.
C13_WriteOnlyAfterConfirmedStop ==
    /\ [][(fg.op = "write_epc_tag" /\ fg.pc = "w_send" /\ fg'.pc = "w_recv")
            => (fg.stopped /\ ~running /\ ~running')]_vars
    /\ [](fg.op = "write_epc_tag" /\ fg.pc \notin {"s_enter", "s_join", "s_flush",
                                                    "s_send", "s_recv"}
          /\ ~fg.stopped
            => /\ fg.pc = "done"
               /\ fg.sent = << >>
               /\ ~fg.result.success
               /\ fg.result.result_msg = "failed_to_stop")

\* a session was running, the stop got no confirmation, and the call has
\* returned its failure
C13_Witness ==
    /\ fg.op = "write_epc_tag"
    /\ fg.pc = "done"
    /\ thread # 0
    /\ ~fg.stopped
    /\ fg.sent = << >>
    /\ fg.result.result_msg = "failed_to_stop"

\* the write frame on its way after a confirmed stop of a running session
C13_WriteSent ==
    /\ fg.op = "write_epc_tag"
    /\ fg.pc = "w_recv"
    /\ thread # 0
    /\ Len(fg.sent) = 1

IsConfig(f) == f.op \in {"set_rf_band", "configure_baseband"}

\* C20: set_rf_band and configure_baseband send their configuration frame
\* only after stop_inventory() and then is_idle() have both returned True in
\* the same call; when either fails the call returns False and has sent no
\* configuration frame.
C20_ConfigOnlyAfterStopAndIdle ==
    /\ [][(IsConfig(fg) /\ fg.pc = "g_send" /\ fg'.pc = "g_recv")
            => (fg.stopped /\ fg.idle_ok)]_vars
    /\ [](IsConfig(fg) => (fg.idle_ok => fg.stopped))
    /\ [](IsConfig(fg) /\ fg.pc = "done" /\ ~(fg.stopped /\ fg.idle_ok)
            => (fg.sent = << >> /\ ~fg.ret))

\* a configuration frame sent after both guards passed on a session that was
\* running
C20_Witness ==
    /\ IsConfig(fg)
    /\ fg.pc = "g_recv"
    /\ thread # 0
    /\ fg.stopped /\ fg.idle_ok
    /\ Len(fg.sent) = 1

\* the stop confirmed, is_idle failed, and the call returned False
C20_IdleFailed ==
    /\ IsConfig(fg)
    /\ fg.pc = "done"
    /\ fg.stopped /\ ~fg.idle_ok
    /\ config_args_valid(fg.op, fg.arg)

(***************************************************************************)
(* Specification of write_epc_to_target_auto called once on an open, idle  *)
(* reader, with a line on which a write may fail.                          *)
(***************************************************************************)
IsTarget(f) == f.op = "write_epc_to_target_auto"

\* what the reader transmits: tags while it inventories, then its answer to
\* the frame it was sent last
TargetFramesAt(pc) ==
    IF pc \in {"t_wait", "t_vwait"} THEN {TagA, TagB}
    ELSE IF pc = "s_recv" THEN {StopOk}
    ELSE IF pc = "w_recv" THEN {WriteResp(<<0>>), WriteResp(<<3>>)}
    ELSE {}

\* a frame arrives when the one before it has been read
TargetDev ==
    /\ portOpen
    /\ Len(rxq) = 0
    /\ \E f \in TargetFramesAt(fg.pc) : rxq' = rxq \o f
    /\ UNCHANGED <<portOpen, running, onTag, thread, workers, fg, tagLog, rxLog,
                   wireLog, devRest, opsLeft, devLeft, ioLeft>>
    /\ UNCHANGED <<obs, cin, cout, cop, uart, app>>

TargetInputs ==
    {TargetArgs(<<"a", "b", "c", "d">>, <<"1", "2", "3", "4">>, verify, TRUE, 0) :
        verify \in BOOLEAN}
    \cup {TargetArgs(<<"A", "B", "C", "D">>, <<"1", "2", "3">>, TRUE, TRUE, 0)}

TargetInit ==
    /\ uart = UartIdle
    /\ app = AppIdle
    /\ portOpen = TRUE
    /\ rxq = << >>
    /\ running = FALSE
    /\ onTag = FALSE
    /\ thread = 0
    /\ workers = [w \in WorkerIds |-> NoWorker]
    /\ fg = FgIdle
    /\ tagLog = << >>
    /\ rxLog = << >>
    /\ wireLog = << >>
    /\ devRest = << >>
    /\ opsLeft = 1
    /\ devLeft = 0
    /\ ioLeft = MaxIoErr
    /\ obs = FALSE
    /\ CodecIdle

TargetNext ==
    \/ \E arg \in TargetInputs : Call_write_epc_to_target_auto(arg)
    \/ StopEnter
    \/ StopJoin
    \/ StopFlush
    \/ StopSend
    \/ StopRecv
    \/ StartSet
    \/ StartSend
    \/ StartSendIOError
    \/ StartSpawn
    \/ TargetWait
    \/ TargetValidate
    \/ WriteFlush
    \/ WriteSend
    \/ WriteRecv
    \/ WriteTimeout
    \/ TargetAfterWrite
    \/ TargetVerifyWait
    \/ TargetFinally
    \/ TargetDev
    \/ \E w \in WorkerIds : WorkerCheck(w)
    \/ \E w \in WorkerIds : WorkerReceive(w)
    \/ \E w \in WorkerIds : WorkerDispatch(w)

SpecTarget == TargetInit /\ [][TargetNext]_vars

\* found_event is set: tag_callback_for_scan was handed a tag with the
\* target's EPC
TargetObserved == fg.found

\* C15: write_epc_to_target_auto sends the write frame only after a tag
\* with the target's EPC was handed to its scan callback; when the scan
\* wait ends without one, the result is "target not found" and no write
\* frame is ever sent.
C15_WriteOnlyAfterTargetSeen ==
    /\ [][(IsTarget(fg) /\ fg.pc = "w_send" /\ fg'.pc = "w_recv")
            => TargetObserved]_vars
    /\ [][(IsTarget(fg) /\ fg.pc = "t_wait" /\ fg'.pc # "t_wait" /\ ~TargetObserved)
            => (fg'.pc = "t_finally"
                /\ fg'.result.result_msg = "target_not_found")]_vars
    /\ [](IsTarget(fg) /\ fg.result.result_msg = "target_not_found"
            => (fg.sent = << >> /\ ~fg.result.success))

\* the write frame sent after the scan callback saw the target
C15_Witness ==
    /\ IsTarget(fg)
    /\ fg.pc = "w_recv"
    /\ Len(fg.sent) = 1
    /\ TargetObserved

\* the call returned "target not found" after a scan that saw another tag
C15_NotFound ==
    /\ IsTarget(fg)
    /\ fg.pc = "done"
    /\ fg.result.result_msg = "target_not_found"
    /\ thread # 0

\* C16: when write_epc_to_target_auto has returned, the inventory state is
\* idle and no inventory worker is running.
C16_StoppedOnEveryExit ==
    (IsTarget(fg) /\ fg.pc = "done")
        => (~running /\ \A w \in WorkerIds : ~Alive(w))

\* C17: with verify requested and a successful write, the reported success
\* flag and result code stay those of the write through the verification
\* scan and to the return, whatever the scan saw and whether it started or
\* stopped.
C17_VerifyKeepsWriteResult ==
    (IsTarget(fg) /\ fg.arg.verify /\ fg.write_result.success)
        => /\ fg.result.success = fg.write_result.success
           /\ fg.result.result_code = fg.write_result.result_code

\* the call returned after a verification scan that did not see the new EPC
C17_Witness ==
    /\ IsTarget(fg)
    /\ fg.pc = "done"
    /\ fg.arg.verify
    /\ fg.write_result.success
    /\ fg.cbk = "verify"
    /\ ~fg.seen

\* the call returned after a verification scan that saw the new EPC
C17_Verified ==
    /\ IsTarget(fg)
    /\ fg.pc = "done"
    /\ fg.write_result.success
    /\ fg.seen

\* the call returned after the verification scan failed to start
C17_VerifyNotStarted ==
    /\ IsTarget(fg)
    /\ fg.pc = "done"
    /\ fg.write_result.success
    /\ fg.phase \in {"verify", "finally"}
    /\ ioLeft = 0

(***************************************************************************)
(* Specification of the control commands: configure_reader_power,          *)
(* enable_ant and disable_ant called on an idle reader that holds an       *)
(* enabled-antenna mask (cin.mask) and answers, or fails to answer in      *)
(* time, the frame it was sent.                                            *)
(***************************************************************************)
ReaderMasks == {<<0, 0, 0, 1>>, <<0, 0, 0, 5>>, <<128, 0, 1, 0>>}

CtlPowerInputs ==
    {<< >>, <<<<1, 30>>>>, <<<<65, 30>>>>, <<<<0, 30>>>>, <<<<1, 34>>>>,
     <<<<1, 30>>, <<2, -1>>>>, <<<<64, 33>>, <<2, 0>>>>}

CtlAntInputs == {0, 1, 3, 9, 32, 33}

\* the reader's answer to the mask query
AntMaskFrame(mask) == build_frame(QUERY_ANT_MASK_MID, mask, FALSE, FALSE)

\* the reader's answer to the frame the call sent last
CtlAnswers ==
    IF fg.pc = "q_recv" THEN {AntMaskFrame(cin.mask)}
    ELSE IF fg.pc = "c_recv" /\ fg.op = "configure_reader_power" THEN {PowerOk}
    ELSE IF fg.pc = "c_recv" THEN {AntOk}
    ELSE {}

\* the answer arrives before the call reads
CtlDev ==
    /\ portOpen
    /\ Len(rxq) = 0
    /\ \E f \in CtlAnswers : rxq' = f
    /\ UNCHANGED <<portOpen, running, onTag, thread, workers, fg, tagLog, rxLog,
                   wireLog, devRest, opsLeft, devLeft, ioLeft>>
    /\ UNCHANGED <<obs, cin, cout, cop, uart, app>>

CtlInit ==
    /\ uart = UartIdle
    /\ app = AppIdle
    /\ portOpen \in BOOLEAN
    /\ rxq = << >>
    /\ running = FALSE
    /\ onTag = FALSE
    /\ thread = 0
    /\ workers = [w \in WorkerIds |-> NoWorker]
    /\ fg = FgIdle
    /\ tagLog = << >>
    /\ rxLog = << >>
    /\ wireLog = << >>
    /\ devRest = << >>
    /\ opsLeft = 1
    /\ devLeft = 0
    /\ ioLeft = 0
    /\ obs = FALSE
    /\ cin \in {[mask |-> m] : m \in ReaderMasks}
    /\ cout = << >>
    /\ cop = "none"

CtlNext ==
    \/ \E a \in CtlPowerInputs : Call_configure_reader_power(a)
    \/ \E a \in CtlAntInputs : Call_enable_ant(a)
    \/ \E a \in CtlAntInputs : Call_disable_ant(a)
    \/ QueryFlush
    \/ QuerySend
    \/ QueryRecv
    \/ CmdFlush
    \/ CmdSend
    \/ CmdRecv
    \/ CtlDev

SpecCtl == CtlInit /\ [][CtlNext]_vars

\* bit n (0-based, from the least significant) of a byte
BitOf(b, n) == (b \div Pow2(n)) % 2

\* the 32-bit mask, as 4 big-endian bytes, with the bit of antenna ant_id
\* made v and every other bit as it is
MaskWithAntenna(mask, ant_id, v) ==
    [i \in 1..4 |->
        IF i = 4 - ((ant_id - 1) \div 8)
        THEN mask[i] + (v - BitOf(mask[i], (ant_id - 1) % 8)) * Pow2((ant_id - 1) % 8)
        ELSE mask[i]]

\* the mask in the frame the call wrote last
SentMask(f) == Slice(parse_frame(f.sent[Len(f.sent)]).data, 0, 4)

IsAntOp(f) == f.op \in {"enable_ant", "disable_ant"}

\* C21: the mask enable_ant(i) or disable_ant(i) sends is the reader's
\* current mask with bit i-1 set or cleared and every other bit unchanged.
C21_MaskIsReadModifyWrite ==
    [][(IsAntOp(fg) /\ fg.pc = "c_send" /\ fg'.pc = "c_recv")
         => SentMask(fg') = MaskWithAntenna(cin.mask, fg.arg,
                                            IF fg.op = "enable_ant" THEN 1 ELSE 0)]_vars

\* the mask sent after the query was answered in time
C21_Answered ==
    /\ IsAntOp(fg)
    /\ fg.pc = "c_recv"
    /\ fg.mask = cin.mask
    /\ SentMask(fg) = MaskWithAntenna(cin.mask, fg.arg,
                                      IF fg.op = "enable_ant" THEN 1 ELSE 0)
    /\ SentMask(fg) # cin.mask

\* the arguments the commands must refuse
Refused(f) ==
    IF f.op = "configure_reader_power"
    THEN \/ Len(f.arg) = 0
         \/ \E i \in 1..Len(f.arg) : \/ f.arg[i][1] \notin 1..64
                                     \/ f.arg[i][2] \notin 0..33
    ELSE f.arg \notin 1..32

IsCtlOp(f) == f.op \in {"configure_reader_power", "enable_ant", "disable_ant"}

\* C22: configure_reader_power with an empty map, an antenna id outside
\* 1..64 or a power outside 0..33, and enable_ant and disable_ant with an id
\* outside 1..32, return False and write nothing to the port.
C22_RefusedBeforeSending ==
    (IsCtlOp(fg) /\ Refused(fg))
        => (fg.pc = "done" /\ ~fg.ret /\ fg.sent = << >>)

\* a power map whose second entry is out of range, refused on an open port
C22_Witness ==
    /\ fg.op = "configure_reader_power"
    /\ portOpen
    /\ Len(fg.arg) = 2
    /\ Refused(fg)
    /\ fg.pc = "done"
    /\ fg.sent = << >>

\* an antenna id of 33 refused by disable_ant on an open port
C22_AntRefused ==
    /\ fg.op = "disable_ant"
    /\ portOpen
    /\ fg.arg = 33
    /\ fg.pc = "done"
    /\ fg.sent = << >>

(***************************************************************************)
(* Specification of the pure functions build_antenna_mask, parse_epc,      *)
(* crc16_ccitt and extract_valid_frames applied to inputs drawn from       *)
(* bounded sets.                                                           *)
(***************************************************************************)
AntennaIdLists ==
    SeqsUpTo({0, 1, 3, 8, 9, 32, 33}, 2) \cup {<<32, 1, 16>>, <<1, 2, 33>>, <<3, 3, 1>>}

\* the payload of a tag response: EPC length, EPC, PC, antenna id, and what
\* follows
EpcPayload(epc, pc, antenna_id, tail) ==
    ToBytes(Len(epc), 2) \o epc \o pc \o <<antenna_id>> \o tail

EpcInputs ==
    [epc : {<< >>, <<171, 205, 0, 1>>, <<10, 255>>}, pc : {<<48, 0>>},
     antenna_id : {1, 2, 255},
     tail : {<< >>, <<1, 200>>, <<1, 0>>, <<1, 1>>, <<1>>, <<2, 200>>}]

CrcData == SeqsUpTo({0, 1, 90, 128, 255}, 3)

\* data with bit k (0 the lowest bit of the last byte) flipped
flip_bit(data, k) ==
    LET i == Len(data) - (k \div 8)
        b == k % 8
    IN  [data EXCEPT ![i] = IF (@ \div Pow2(b)) % 2 = 1 THEN @ - Pow2(b) ELSE @ + Pow2(b)]

OverlapInputs ==
    [a : {StopOk, TagA, build_frame(MID_READ_END, <<90, 1>>, FALSE, FALSE)},
     b : {StopOk, TagB, EndByCommand}]

\* frame a with its declared length grown by n
lengthened(a, n) == [a EXCEPT ![7] = @ + n]

BuiltInputs ==
    [mid : {MID_STOP_INVENTORY, MID_READ_END, 4608}, payload : SeqsUpTo({0, 90}, 2),
     rs485 : BOOLEAN]

\* frames a caller may read while it waits: the stop response (0x02FF), the
\* read-end notification (0x1231), a tag (0x1200), and frames of category 5
\* with the same code bytes
ResponseFrameInputs ==
    [mid : {MID_STOP_INVENTORY, MID_READ_END, 4608, 1535, 1329, 1280},
     payload : {<<0>>, <<1>>, TagPayload(<<171, 205>>)}]

\* the least word count whose PC value has six hexadecimal digits
WidePcWords == 512

\* EPCs of 2, 31, 32 and WidePcWords words
AutoEpcInputs ==
    {<<"A", "B", "C", "D", "0", "2", "8", "4">>,
     Chars(LongestEpcChars, "A"),
     Chars(LongestEpcChars + 1, "A"),
     Chars(4 * WidePcWords - 3, "A")}

FnInputs ==
    {[kind |-> "mask", ids |-> ids] : ids \in AntennaIdLists}
    \cup {[kind |-> "epc", fields |-> f] : f \in EpcInputs}
    \cup {[kind |-> "crc", data |-> d] : d \in CrcData}
    \cup {[kind |-> "overlap", frames |-> f] : f \in OverlapInputs}
    \cup {[kind |-> "built", frame |-> f] : f \in BuiltInputs}
    \cup {[kind |-> "response", frame |-> f] : f \in ResponseFrameInputs}
    \cup {[kind |-> "auto", new_epc_hex |-> e] : e \in AutoEpcInputs}

FnInit ==
    /\ ReaderInit
    /\ cin \in FnInputs
    /\ cout = << >>
    /\ cop = "none"

\* build_antenna_mask(ids)
ApplyAntennaMask ==
    /\ cop = "none"
    /\ cin.kind = "mask"
    /\ cop' = "build_antenna_mask"
    /\ cout' = build_antenna_mask(cin.ids)
    /\ UNCHANGED <<cin, readerVars>>

\* parse_epc(payload)
ApplyParseEpc ==
    /\ cop = "none"
    /\ cin.kind = "epc"
    /\ cop' = "parse_epc"
    /\ cout' = parse_epc(EpcPayload(cin.fields.epc, cin.fields.pc,
                                    cin.fields.antenna_id, cin.fields.tail))
    /\ UNCHANGED <<cin, readerVars>>

\* crc16_ccitt(data), twice, and crc16_ccitt(data with one bit flipped)
ApplyCrc ==
    /\ cop = "none"
    /\ cin.kind = "crc"
    /\ cop' = "crc16_ccitt"
    /\ \E k \in 0..(8 * Len(cin.data)) :
          cout' = [crc |-> crc16_ccitt(cin.data), again |-> crc16_ccitt(cin.data),
                   flipped |-> IF k < 8 * Len(cin.data)
                               THEN crc16_ccitt(flip_bit(cin.data, k)) ELSE -1]
    /\ UNCHANGED <<cin, readerVars>>

\* extract_valid_frames(a with a declared length that reaches over b + b)
ApplyExtractOverlap ==
    /\ cop = "none"
    /\ cin.kind = "overlap"
    /\ cop' = "extract_overlap"
    /\ LET bad == lengthened(cin.frames.a, Len(cin.frames.b))
           data == bad \o cin.frames.b
       IN  cout' = [data |-> data,
                    crc_ok |-> crc16_ccitt(Slice(data, 1, Len(data) - 2))
                               = FromBytes(Slice(data, Len(data) - 2, Len(data))),
                    frames |-> extract_valid_frames(data)]
    /\ UNCHANGED <<cin, readerVars>>

\* extract_valid_frames(build_frame(mid, payload, rs485))
ApplyExtractBuilt ==
    /\ cop = "none"
    /\ cin.kind = "built"
    /\ cop' = "extract_built"
    /\ LET frame == build_frame(cin.frame.mid, cin.frame.payload, cin.frame.rs485, FALSE)
       IN  cout' = [frame |-> frame, frames |-> extract_valid_frames(frame)]
    /\ UNCHANGED <<cin, readerVars>>

\* the frame as stop_inventory's confirmation loop and as the inventory
\* worker interpret it
ApplyInterpret ==
    /\ cop = "none"
    /\ cin.kind = "response"
    /\ cop' = "interpret"
    /\ LET frame == build_frame(cin.frame.mid, cin.frame.payload, FALSE, FALSE)
       IN  cout' = [frame |-> frame,
                    stop |-> stop_confirmation(<<frame>>, 1),
                    worker |-> inventory_frame_action(frame)]
    /\ UNCHANGED <<cin, readerVars>>

\* write_epc_tag_auto(new_epc_hex) with the default antenna, no match and no
\* password: the payload of the frame it sends, or the exception that makes
\* it return without sending
ApplyWriteAutoData ==
    /\ cop = "none"
    /\ cin.kind = "auto"
    /\ cop' = "auto_data"
    /\ cout' = write_epc_tag_auto_payload(cin.new_epc_hex, << >>, 1, << >>)
    /\ UNCHANGED <<cin, readerVars>>

FnNext ==
    \/ ApplyWriteAutoData
    \/ ApplyInterpret
    \/ ApplyExtractBuilt
    \/ ApplyAntennaMask
    \/ ApplyParseEpc
    \/ ApplyCrc
    \/ ApplyExtractOverlap

SpecFn == FnInit /\ [][FnNext]_vars

\* the ids of a list
IdsOf(ids) == {ids[k] : k \in 1..Len(ids)}

\* bit n-1 of a mask of 4 big-endian bytes
MaskBit(mask, n) == (mask[4 - ((n - 1) \div 8)] \div Pow2((n - 1) % 8)) % 2

\* C23: build_antenna_mask(ids) returns the mask whose bit i-1 is set
\* exactly for the ids i of the list ([1,3] gives 0x00000005) and raises
\* the range error when an id is outside 1..32.
C23_MaskHasExactlyTheIdsBits ==
    cop = "build_antenna_mask" =>
        /\ (IdsOf(cin.ids) \subseteq 1..32) =>
              /\ cout.exc = "none"
              /\ \A n \in 1..32 : (MaskBit(cout.mask, n) = 1) <=> (n \in IdsOf(cin.ids))
        /\ ~(IdsOf(cin.ids) \subseteq 1..32) => cout.exc = "ValueError"
        /\ cin.ids = <<1, 3>> => cout.mask = <<0, 0, 0, 5>>
        /\ cin.ids = <<33>> => cout.exc = "ValueError"

\* the mask of antennas 32, 1 and 16
C23_Witness ==
    /\ cop = "build_antenna_mask"
    /\ cin.ids = <<32, 1, 16>>
    /\ cout.exc = "none"
    /\ cout.mask = <<128, 0, 128, 1>>

\* the list [33] refused
C23_Refused ==
    /\ cop = "build_antenna_mask"
    /\ cin.ids = <<33>>
    /\ cout.exc = "ValueError"

\* s is the uppercase hexadecimal form of the bytes
IsUpperHexOf(s, bytes) ==
    /\ Len(s) = 2 * Len(bytes)
    /\ \A i \in 1..Len(s) : s[i] \in {HexDigits[d] : d \in 1..16}
    /\ \A i \in 1..Len(bytes) :
          16 * hex_digit_value(s[2 * i - 1]) + hex_digit_value(s[2 * i]) = bytes[i]

\* C24: parse_epc on EPC length, EPC, PC, antenna id and an optional
\* (0x01, value) pair returns the EPC in uppercase hexadecimal, the antenna
\* id, and rssi = value when the pair is there, None (-1) when nothing
\* follows the antenna id.
C24_ParseEpcFields ==
    cop = "parse_epc" /\ Len(cin.fields.tail) \in {0, 2} /\ (cin.fields.tail = << >> \/ cin.fields.tail[1] = 1) =>
        /\ ~IsError(cout)
        /\ IsUpperHexOf(cout.epc, cin.fields.epc)
        /\ cout.antenna_id = cin.fields.antenna_id
        /\ cin.fields.tail # << >> => cout.rssi = cin.fields.tail[2]
        /\ cin.fields.tail = << >> => cout.rssi = -1

\* EPC ABCD0001, antenna 2 and the pair (0x01, 200)
C24_Witness ==
    /\ cop = "parse_epc"
    /\ cin.fields.epc = <<171, 205, 0, 1>>
    /\ cin.fields.antenna_id = 2
    /\ cin.fields.tail = <<1, 200>>
    /\ cout.epc = <<"A", "B", "C", "D", "0", "0", "0", "1">>
    /\ cout.rssi = 200

\* the same payload without the pair
C24_NoRssi ==
    /\ cop = "parse_epc"
    /\ cin.fields.epc = <<171, 205, 0, 1>>
    /\ cin.fields.tail = << >>
    /\ cout.rssi = -1

\* C25: crc16_ccitt gives the same value each time it is applied to the
\* same bytes, a value of 16 bits, and a different value for the bytes with
\* any one bit flipped.
C25_CrcSensitiveToOneBit ==
    cop = "crc16_ccitt" =>
        /\ cout.again = cout.crc
        /\ cout.crc \in 0..65535
        /\ cout.flipped # cout.crc

\* three bytes with one bit flipped and a CRC that differs
C25_Witness ==
    /\ cop = "crc16_ccitt"
    /\ cin.data = <<90, 0, 255>>
    /\ cout.flipped \in 0..65535
    /\ cout.flipped # cout.crc

\* C30: when the candidate at the head of the buffer fails its CRC check,
\* the valid frame that starts inside the span the candidate declares is
\* still returned.
C30_FrameInsideDiscardedSpan ==
    (cop = "extract_overlap" /\ ~cout.crc_ok)
        => \E k \in 1..Len(cout.frames) : cout.frames[k] = cin.frames.b

(***************************************************************************)
(* Specification of the transport: two threads call send, receive,         *)
(* flush_input, close and send_raw_bytes on one open UARTConnection.  A     *)
(* call is at "test" before the method's opening test, at "lock" while it  *)
(* waits for self.lock, and at "serial" while it executes on self.ser.     *)
(***************************************************************************)
UartOps == {"send", "receive", "flush_input", "close", "send_raw_bytes"}

\* the methods whose serial call is inside "with self.lock"
LockedOps == {"send", "receive"}

UartAt(t, op, at) == uart.calls[t] = [op |-> op, at |-> at]

\* thread t enters method op
UartCall(t, op) ==
    /\ uart.calls[t] = NoCall
    /\ opsLeft > 0
    /\ opsLeft' = opsLeft - 1
    /\ uart' = [uart EXCEPT !.calls[t] = [op |-> op, at |-> "test"]]
    /\ UNCHANGED <<portOpen, rxq, running, onTag, thread, workers, fg, tagLog,
                   rxLog, wireLog, devRest, devLeft, ioLeft, obs, cin, cout, cop, app>>

\* the opening test: send, receive and send_raw_bytes raise on a port that
\* is not open, close returns on it, flush_input tests only "if self.ser"
serial_test(t) ==
    /\ uart.calls[t].at = "test"
    /\ LET op == uart.calls[t].op IN
       uart' = [uart EXCEPT !.calls[t] =
                  IF op # "flush_input" /\ ~portOpen THEN NoCall
                  ELSE IF op \in LockedOps THEN [op |-> op, at |-> "lock"]
                  ELSE [op |-> op, at |-> "serial"]]
    /\ UNCHANGED <<portOpen, rxq, running, onTag, thread, workers, fg, tagLog,
                   rxLog, wireLog, devRest, opsLeft, devLeft, ioLeft, obs,
                   cin, cout, cop, app>>

\* with self.lock: entered when the lock is free
lock_acquire(t) ==
    /\ uart.calls[t].at = "lock"
    /\ uart.lock = 0
    /\ uart' = [uart EXCEPT !.lock = t, !.calls[t].at = "serial"]
    /\ UNCHANGED <<portOpen, rxq, running, onTag, thread, workers, fg, tagLog,
                   rxLog, wireLog, devRest, opsLeft, devLeft, ioLeft, obs,
                   cin, cout, cop, app>>

\* the call on self.ser returns (or raises), the lock, if held, is released
serial_return(t) ==
    /\ uart.calls[t].at = "serial"
    /\ LET op == uart.calls[t].op IN
       /\ portOpen' = IF op = "close" THEN FALSE ELSE portOpen
       /\ rxq' = IF op = "receive" THEN receive(64).rest
                 ELSE IF op \in {"flush_input", "close"} THEN << >>
                 ELSE rxq
    /\ uart' = [uart EXCEPT !.lock = IF @ = t THEN 0 ELSE @, !.calls[t] = NoCall]
    /\ UNCHANGED <<running, onTag, thread, workers, fg, tagLog,
                   rxLog, wireLog, devRest, opsLeft, devLeft, ioLeft, obs,
                   cin, cout, cop, app>>

\* the reader transmits a frame
UartDev ==
    /\ portOpen
    /\ devLeft > 0
    /\ Len(rxq) = 0
    /\ devLeft' = devLeft - 1
    /\ \E f \in StreamFrames : rxq' = f
    /\ UNCHANGED <<portOpen, running, onTag, thread, workers, fg, tagLog,
                   rxLog, wireLog, devRest, opsLeft, ioLeft, obs,
                   cin, cout, cop, uart, app>>

UartInit ==
    /\ uart = UartIdle
    /\ app = AppIdle
    /\ portOpen = TRUE
    /\ rxq = << >>
    /\ running = FALSE
    /\ onTag = FALSE
    /\ thread = 0
    /\ workers = [w \in WorkerIds |-> NoWorker]
    /\ fg = FgIdle
    /\ tagLog = << >>
    /\ rxLog = << >>
    /\ wireLog = << >>
    /\ devRest = << >>
    /\ opsLeft = MaxOps + 1
    /\ devLeft = 1
    /\ ioLeft = 0
    /\ obs = FALSE
    /\ CodecIdle

UartNext ==
    \/ \E t \in UartThreads : \E op \in UartOps : UartCall(t, op)
    \/ \E t \in UartThreads : serial_test(t)
    \/ \E t \in UartThreads : lock_acquire(t)
    \/ \E t \in UartThreads : serial_return(t)
    \/ UartDev

SpecUart == UartInit /\ [][UartNext]_vars

\* C26: no two threads execute a transport operation of the same
\* UARTConnection on the serial device at the same time.
C26_TransportMutuallyExclusive ==
    \A t1, t2 \in UartThreads :
        (uart.calls[t1].at = "serial" /\ uart.calls[t2].at = "serial") => t1 = t2

(***************************************************************************)
(* Specification of the wait of write_epc_tag: the call is made on an open *)
(* reader, its stop is confirmed, and while it waits for the write         *)
(* response the reader transmits a late tag notification, the answer to    *)
(* another command, or the write response.                                 *)
(***************************************************************************)
WaitFramesAt(pc) ==
    IF pc = "s_recv" THEN {StopOk}
    ELSE IF pc = "w_recv" THEN {TagA, PowerOk, WriteResp(<<0>>), WriteResp(<<3>>)}
    ELSE {}

\* a frame arrives when the one before it has been read
WaitDev ==
    /\ portOpen
    /\ Len(rxq) = 0
    /\ devLeft > 0
    /\ devLeft' = devLeft - 1
    /\ \E f \in WaitFramesAt(fg.pc) : rxq' = rxq \o f
    /\ UNCHANGED <<portOpen, running, onTag, thread, workers, fg, tagLog, rxLog,
                   wireLog, devRest, opsLeft, ioLeft>>
    /\ UNCHANGED <<obs, cin, cout, cop, uart, app>>

WaitInit ==
    /\ uart = UartIdle
    /\ app = AppIdle
    /\ portOpen = TRUE
    /\ rxq = << >>
    /\ running = FALSE
    /\ onTag = FALSE
    /\ thread = 0
    /\ workers = [w \in WorkerIds |-> NoWorker]
    /\ fg = FgIdle
    /\ tagLog = << >>
    /\ rxLog = << >>
    /\ wireLog = << >>
    /\ devRest = << >>
    /\ opsLeft = 1
    /\ devLeft = MaxDev
    /\ ioLeft = 0
    /\ obs = FALSE
    /\ CodecIdle

WaitNext ==
    \/ \E warg \in GuardWriteInputs : Call_write_epc_tag(warg)
    \/ StopEnter
    \/ StopJoin
    \/ StopFlush
    \/ StopSend
    \/ StopRecv
    \/ WriteFlush
    \/ WriteSend
    \/ WriteRecv
    \/ WriteTimeout
    \/ WaitDev

SpecWait == WaitInit /\ [][WaitNext]_vars

\* a frame that answers the write command: the write response (MID 0x0211)
\* or the error notification (MID 0x0000), category and code
AnswersWrite(frame) ==
    LET p == parse_frame(frame) IN
    p.valid /\ 256 * p.category + p.mid \in {MID_WRITE_EPC_TAG_COMMAND, MID_ERROR_NOTIFICATION}

\* C27: the wait of write_epc_tag ends only with a frame that answers the
\* write command or, at the deadline, with the timeout failure; any other
\* frame is ignored.
C27_WaitEndsOnAnswerOrDeadline ==
    [][(fg.op = "write_epc_tag" /\ fg.pc = "w_recv" /\ fg'.pc = "done")
         => \/ fg'.result.result_code = -2 /\ ~fg'.result.success
            \/ LET frames == extract_valid_frames(fg.buffer \o receive(256).data)
               IN  \E k \in 1..Len(frames) : AnswersWrite(frames[k])]_vars

(***************************************************************************)
(* Specification of the web controller: RFIDWebController.start_inventory  *)
(* runs start_inventory_with_mode([1], tag_callback) in its                *)
(* inventory_thread (the thread fg), and a request thread runs             *)
(* disconnect(); app.pc is the position of disconnect().                   *)
(***************************************************************************)
readerState == <<portOpen, rxq, running, onTag, thread, workers, fg, tagLog, rxLog,
                 wireLog, devRest, opsLeft, devLeft, ioLeft>>

\* app.py lines 277-333: refused while inventory_thread is alive; flush_input,
\* then the thread is created and started
App_start_inventory ==
    /\ app.pc = "idle"
    /\ app.inventory_thread # "alive"
    /\ opsLeft > 0
    /\ opsLeft' = opsLeft - 1
    /\ rxq' = << >>
    /\ app' = [app EXCEPT !.inventory_thread = "alive"]
    /\ fg' = [StopLocals("start") EXCEPT !.pc = "s_enter", !.ids = <<1>>, !.cb = TRUE]
    /\ UNCHANGED <<portOpen, running, onTag, thread, workers, tagLog, rxLog,
                   wireLog, devRest, devLeft, ioLeft>>
    /\ UNCHANGED <<obs, cin, cout, cop, uart>>

\* inventory_worker, lines 312-329: start_inventory_with_mode has returned
\* and the thread ends
inventory_worker_end ==
    /\ app.inventory_thread = "alive"
    /\ fg.op = "start"
    /\ fg.pc = "done"
    /\ app' = [app EXCEPT !.inventory_thread = "dead"]
    /\ UNCHANGED readerState
    /\ UNCHANGED <<obs, cin, cout, cop, uart>>

\* disconnect() is called
Call_disconnect ==
    /\ app.pc = "idle"
    /\ app' = [app EXCEPT !.pc = "d_test"]
    /\ UNCHANGED readerState
    /\ UNCHANGED <<obs, cin, cout, cop, uart>>

\* line 190: if inventory_thread and inventory_thread.is_alive()
disconnect_test ==
    /\ app.pc = "d_test"
    /\ app' = [app EXCEPT !.pc = IF app.inventory_thread = "alive" THEN "d_stop"
                                 ELSE "d_close"]
    /\ UNCHANGED readerState
    /\ UNCHANGED <<obs, cin, cout, cop, uart>>

\* self.stop_inventory() -> NationReader.stop_inventory(), line 1280:
\* self._inventory_running = False
disconnect_stop ==
    /\ app.pc = "d_stop"
    /\ running' = FALSE
    /\ app' = [app EXCEPT !.pc = "d_join"]
    /\ UNCHANGED <<portOpen, rxq, onTag, thread, workers, fg, tagLog, rxLog,
                   wireLog, devRest, opsLeft, devLeft, ioLeft>>
    /\ UNCHANGED <<obs, cin, cout, cop, uart>>

\* NationReader.stop_inventory, join(timeout=1) of the reader's thread
disconnect_join ==
    /\ app.pc = "d_join"
    /\ \/ ~ThreadAlive
       \/ ThreadAlive /\ InCallback(thread)
    /\ app' = [app EXCEPT !.pc = "d_send"]
    /\ UNCHANGED readerState
    /\ UNCHANGED <<obs, cin, cout, cop, uart>>

\* flush_input and send of the stop frame; a closed port ends stop_inventory
disconnect_send ==
    /\ app.pc = "d_send"
    /\ rxq' = << >>
    /\ app' = [app EXCEPT !.pc = IF portOpen THEN "d_recv" ELSE "d_appjoin",
                          !.attempt = 0]
    /\ UNCHANGED <<portOpen, running, onTag, thread, workers, fg, tagLog, rxLog,
                   wireLog, devRest, opsLeft, devLeft, ioLeft>>
    /\ UNCHANGED <<obs, cin, cout, cop, uart>>

\* one attempt of the confirmation loop of stop_inventory; its result is
\* only logged by RFIDWebController.stop_inventory (lines 359-361)
disconnect_recv ==
    /\ app.pc = "d_recv"
    /\ rxq' = IF receive(256).exc = "none" THEN receive(256).rest ELSE rxq
    /\ LET conf == stop_confirmation(extract_valid_frames(receive(256).data), 1)
       IN  app' = IF receive(256).exc = "none" /\ conf.decided
                  THEN [app EXCEPT !.pc = "d_appjoin"]
                  ELSE IF app.attempt + 1 >= STOP_ATTEMPTS
                  THEN [app EXCEPT !.pc = "d_appjoin"]
                  ELSE [app EXCEPT !.attempt = @ + 1]
    /\ UNCHANGED <<portOpen, running, onTag, thread, workers, fg, tagLog, rxLog,
                   wireLog, devRest, opsLeft, devLeft, ioLeft>>
    /\ UNCHANGED <<obs, cin, cout, cop, uart>>

\* lines 364-369: inventory_thread.join(timeout=3.0), the thread ended or
\* not; then the sleep of line 193
disconnect_appjoin ==
    /\ app.pc = "d_appjoin"
    /\ app' = [app EXCEPT !.pc = "d_close"]
    /\ UNCHANGED readerState
    /\ UNCHANGED <<obs, cin, cout, cop, uart>>

\* line 195: self._reader_instance.close(): flush_input, close the port
disconnect_close ==
    /\ app.pc = "d_close"
    /\ rxq' = << >>
    /\ devRest' = << >>
    /\ portOpen' = FALSE
    /\ app' = [app EXCEPT !.pc = "done"]
    /\ UNCHANGED <<running, onTag, thread, workers, fg, tagLog, rxLog,
                   wireLog, opsLeft, devLeft, ioLeft>>
    /\ UNCHANGED <<obs, cin, cout, cop, uart>>

\* the reader answers a stop frame, and transmits tags while it inventories
AppFrames ==
    (IF fg.pc = "s_recv" \/ app.pc = "d_recv" THEN {StopOk} ELSE {})
    \cup (IF running /\ ThreadAlive THEN {TagA} ELSE {})

AppDev ==
    /\ portOpen
    /\ Len(rxq) = 0
    /\ devLeft > 0
    /\ devLeft' = devLeft - 1
    /\ \E f \in AppFrames : rxq' = f
    /\ UNCHANGED <<portOpen, running, onTag, thread, workers, fg, tagLog, rxLog,
                   wireLog, devRest, opsLeft, ioLeft>>
    /\ UNCHANGED <<obs, cin, cout, cop, uart, app>>

AppInit ==
    /\ uart = UartIdle
    /\ app = AppIdle
    /\ portOpen = TRUE
    /\ rxq = << >>
    /\ running = FALSE
    /\ onTag = FALSE
    /\ thread = 0
    /\ workers = [w \in WorkerIds |-> NoWorker]
    /\ fg = FgIdle
    /\ tagLog = << >>
    /\ rxLog = << >>
    /\ wireLog = << >>
    /\ devRest = << >>
    /\ opsLeft = 1
    /\ devLeft = MaxDev
    /\ ioLeft = 0
    /\ obs = FALSE
    /\ CodecIdle

AppNext ==
    \/ App_start_inventory
    \/ inventory_worker_end
    \/ Call_disconnect
    \/ disconnect_test
    \/ disconnect_stop
    \/ disconnect_join
    \/ disconnect_send
    \/ disconnect_recv
    \/ disconnect_appjoin
    \/ disconnect_close
    \/ StopEnter
    \/ StopJoin
    \/ StopFlush
    \/ StopSend
    \/ StopRecv
    \/ StopRecvClosed
    \/ StartSet
    \/ StartSend
    \/ StartSpawn
    \/ \E w \in WorkerIds : WorkerCheck(w)
    \/ \E w \in WorkerIds : WorkerReceive(w)
    \/ \E w \in WorkerIds : WorkerReceiveClosed(w)
    \/ \E w \in WorkerIds : WorkerDispatch(w)
    \/ AppDev

SpecApp == AppInit /\ [][AppNext]_vars

\* C28: disconnect() never closes the port while an inventory worker of the
\* reader is running.
C28_PortClosedOnlyWhenStopped ==
    [][(app.pc = "d_close" /\ app'.pc = "done")
         => ~(running /\ \E w \in WorkerIds : Alive(w))]_vars

\* C31: for every command id and payload, with the rs485 bit set or not,
\* extract_valid_frames(build_frame(M, P, rs485)) returns exactly that frame.
C31_ExtractReturnsBuiltFrame ==
    cop = "extract_built" => cout.frames = <<cout.frame>>

\* C39: the data write_epc_tag_auto writes is one 2-byte PC word, equal to
\* wordLen << 11 and below 2^16, followed by wordLen EPC words; for an EPC of
\* more than 31 words the call fails with a validation error and builds no
\* frame.
C39_AutoDataIsPcAndEpcWords ==
    cop = "auto_data" =>
        LET wordLen == (Len(upper(strip(cin.new_epc_hex))) + 3) \div 4
            data == PayloadData(cout.payload)
        IN  /\ cout.exc = "none"
                 => /\ Len(data) = 2 + 2 * wordLen
                    /\ FromBytes(Slice(data, 0, 2)) = wordLen * 2048
                    /\ wordLen * 2048 < 65536
            /\ wordLen > 31 => cout.exc = "ValueError"

\* category and code of a frame as one 16-bit message id
FullMid(frame) == 256 * parse_frame(frame).category + parse_frame(frame).mid

\* a read-end notification by category and code: one of the read-end codes
\* in the category of the read commands (0x02) or of their notifications (0x12)
IsReadEndMid(m) == (m % 256) \in all_read_end_mids /\ (m \div 256) \in {2, 18}

\* C32: stop_inventory takes a frame as its confirmation, and the inventory
\* worker takes a frame as the read-end notification or as a tag, only when
\* both the category and the code of the frame are the awaited ones.
C32_MatchesCategoryAndCode ==
    cop = "interpret" =>
        /\ cout.stop.decided
             => (FullMid(cout.frame) = MID_STOP_INVENTORY \/ IsReadEndMid(FullMid(cout.frame)))
        /\ cout.worker.kind = "end" => IsReadEndMid(FullMid(cout.frame))
        /\ cout.worker.kind = "tag" => FullMid(cout.frame) \in {4096, 4608}

(***************************************************************************)
(* Specification of a running session in which the reader transmits valid  *)
(* tag frames and tag frames with a malformed payload: one too short for   *)
(* its declared EPC length, one without its PC word, one without its       *)
(* antenna id.                                                             *)
(***************************************************************************)
TagShortEpc == build_frame(4608, <<0, 4, 171>>, FALSE, FALSE)
TagNoPc == build_frame(4608, <<0, 2, 171, 205, 48>>, FALSE, FALSE)
TagNoAntenna == build_frame(4608, <<0, 2, 171, 205, 48, 0>>, FALSE, FALSE)

MalformedTagFrames == {TagShortEpc, TagNoPc, TagNoAntenna}

TagsInit ==
    /\ uart = UartIdle
    /\ app = AppIdle
    /\ portOpen = TRUE
    /\ rxq = << >>
    /\ running = TRUE
    /\ onTag = TRUE
    /\ thread = 1
    /\ workers = [w \in WorkerIds |->
                    IF w = 1 THEN [NoWorker EXCEPT !.pc = "check"] ELSE NoWorker]
    /\ fg = FgIdle
    /\ tagLog = << >>
    /\ rxLog = << >>
    /\ wireLog = << >>
    /\ devRest = << >>
    /\ opsLeft = 0
    /\ devLeft = MaxStream
    /\ ioLeft = 0
    /\ obs = TRUE
    /\ CodecIdle

TagsNext ==
    \/ \E w \in WorkerIds : WorkerCheck(w)
    \/ \E w \in WorkerIds : WorkerReceive(w)
    \/ \E w \in WorkerIds : WorkerDispatch(w)
    \/ \E f \in MalformedTagFrames \cup {TagB} : DevEmit(f)

SpecTags == TagsInit /\ [][TagsNext]_vars

\* everything transmitted has been read and handled
TagsQuiet == Len(rxq) = 0 /\ workers[1].pc \in {"check", "recv"}

\* C33: a tag frame with a malformed payload gives no onTag call and does
\* not end the worker, and the valid tag frames around it are delivered:
\* every delivered tag is the tag of a valid frame, the worker stays in its
\* loop, and once everything is handled the tags of the valid frames on the
\* wire have all been delivered, in order.
C33_MalformedTagSkipped ==
    /\ \A k \in 1..Len(tagLog) : tagLog[k].tag \in {TagIn(f) : f \in TagFrames}
    /\ TagsOnWire(wireLog) = << >> => tagLog = << >>
    /\ workers[1].pc \in {"check", "recv", "dispatch"}
    /\ running
    /\ TagsQuiet => IsSubseq(TagsOnWire(wireLog), TagsDelivered(tagLog))

\* a malformed frame arrived before a valid one, and the valid one was
\* delivered
C33_Witness ==
    /\ TagsQuiet
    /\ Len(wireLog) >= 2
    /\ wireLog[1] \in MalformedTagFrames
    /\ wireLog[2] = TagB
    /\ TagsDelivered(tagLog) = <<TagIn(TagB)>>


(***************************************************************************)
(* Specification of is_idle called once by the application, with a retry   *)
(* argument from 0 up, on a reader whose inventory session is running,     *)
(* idle, or whose port is closed.  The reader answers the stop frame with  *)
(* the confirmation, with a refusal, or with a tag read before it stopped. *)
(***************************************************************************)
IdleRetryInputs == 0..MaxOps

IdleFramesAt(pc) ==
    IF pc = "i_recv" THEN {StopOk, StopErr, TagA}
    ELSE IF pc = "i_send" /\ running THEN {TagA}
    ELSE {}

IdleDev == \E f \in IdleFramesAt(fg.pc) : DevEmit(f)

IdleInit ==
    /\ uart = UartIdle
    /\ app = AppIdle
    /\ \E session \in {"running", "idle", "closed"} :
         /\ portOpen = (session # "closed")
         /\ running = (session = "running")
         /\ onTag = (session = "running")
         /\ thread = IF session = "running" THEN 1 ELSE 0
         /\ workers = [w \in WorkerIds |->
                         IF w = 1 /\ session = "running"
                         THEN [NoWorker EXCEPT !.pc = "check"] ELSE NoWorker]
    /\ rxq = << >>
    /\ fg = FgIdle
    /\ tagLog = << >>
    /\ rxLog = << >>
    /\ wireLog = << >>
    /\ devRest = << >>
    /\ opsLeft = 1
    /\ devLeft = MaxDev
    /\ ioLeft = 0
    /\ obs = FALSE
    /\ CodecIdle

IdleNext ==
    \/ \E retry \in IdleRetryInputs : Call_is_idle(retry)
    \/ IdleSend
    \/ IdleRecv
    \/ IdleSettle
    \/ IdleDev
    \/ \E w \in WorkerIds : WorkerCheck(w)
    \/ \E w \in WorkerIds : WorkerReceive(w)
    \/ \E w \in WorkerIds : WorkerDispatch(w)

SpecIdle == IdleInit /\ [][IdleNext]_vars

\* what is_idle read is the confirmation of a stop: the response to the stop
\* command with result code 0
IsStopSuccess(raw) ==
    /\ parse_frame(raw).valid
    /\ FullMid(raw) = MID_STOP_INVENTORY
    /\ Len(parse_frame(raw).data) > 0
    /\ parse_frame(raw).data[1] = 0

C34_GaveUp ==
    /\ fg.op = "is_idle" /\ fg.pc = "done" /\ ~fg.ret
    /\ fg.arg = 2 /\ fg.attempt = 1 /\ fg.sends = 2


(***************************************************************************)
(* Specification of start_inventory_with_mode called once on a reader      *)
(* whose inventory session is running, idle, or whose port is closed, with *)
(* an antenna list inside or outside 1..32, and with a write error on the  *)
(* line possible when the read-EPC frame is sent.                          *)
(***************************************************************************)
StartFramesAt(pc) ==
    IF pc = "s_recv" THEN {StopOk, StopErr, EndByCommand}
    ELSE IF pc \in {"idle", "s_join", "s_flush", "s_send"} /\ ThreadAlive
    THEN {TagA}
    ELSE {}

StartDev == \E f \in StartFramesAt(fg.pc) : DevEmit(f)

StartInit ==
    /\ uart = UartIdle
    /\ app = AppIdle
    /\ \E session \in {"running", "idle", "closed"} :
         /\ portOpen = (session # "closed")
         /\ running = (session = "running")
         /\ onTag = (session = "running")
         /\ thread = IF session = "running" THEN 1 ELSE 0
         /\ workers = [w \in WorkerIds |->
                         IF w = 1 /\ session = "running"
                         THEN [NoWorker EXCEPT !.pc = "check"] ELSE NoWorker]
    /\ rxq = << >>
    /\ fg = FgIdle
    /\ tagLog = << >>
    /\ rxLog = << >>
    /\ wireLog = << >>
    /\ devRest = << >>
    /\ opsLeft = 1
    /\ devLeft = MaxDev
    /\ ioLeft = MaxIoErr
    /\ obs = FALSE
    /\ CodecIdle

StartNext ==
    \/ \E ids \in AntennaLists, cb \in BOOLEAN : CallStart(ids, cb)
    \/ StopJoin
    \/ StopFlush
    \/ StopSend
    \/ StopRecv
    \/ StartSet
    \/ StartSend
    \/ StartSendIOError
    \/ StartSpawn
    \/ StartDev
    \/ \E w \in WorkerIds : WorkerCheck(w)
    \/ \E w \in WorkerIds : WorkerReceive(w)
    \/ \E w \in WorkerIds : WorkerDispatch(w)

SpecStart == StartInit /\ [][StartNext]_vars

\* a worker thread is created in this step
WorkerLaunched == \E w \in WorkerIds : workers[w].pc = "unborn" /\ workers'[w].pc # "unborn"

\* C35: in start_inventory_with_mode the read-EPC frame is sent only after
\* the stop_inventory() of the same call has sent its stop frame and has
\* returned True on a confirmation it read, and the worker thread is started
\* only after the read-EPC frame has been sent.
C35_StartOnlyAfterConfirmedStop ==
    /\ [][(fg.op = "start" /\ fg.pc = "st_send" /\ fg'.pc = "st_spawn")
            => (portOpen /\ fg.sends >= 1 /\ fg.conf.decided /\ fg.conf.result)]_vars
    /\ [][(fg'.pc = "st_spawn" /\ fg.pc # "st_spawn")
            => (fg.op = "start" /\ fg.pc = "st_send" /\ ioLeft' = ioLeft)]_vars
    /\ [][WorkerLaunched => (fg.pc = "st_spawn" /\ fg'.pc = "done" /\ fg'.ret)]_vars

\* a session was running, the call stopped it, sent the read-EPC frame and
\* started the new worker
C35_Witness ==
    /\ fg.op = "start" /\ fg.pc = "done" /\ fg.ret
    /\ fg.idle = FALSE
    /\ fg.sends = 1 /\ fg.conf.decided
    /\ thread # 0 /\ workers[thread].pc # "unborn"
    /\ running

\* C36: when start_inventory_with_mode has returned False the inventory
\* state is IDLE: the running flag is off and the call has started no worker.
C36_FalseLeavesIdle ==
    (fg.op = "start" /\ fg.pc = "done" /\ ~fg.ret)
        => (~running /\ \A w \in WorkerIds : ~Alive(w) \/ w = 1)


(***************************************************************************)
(* Specification of the cancellation of a session: stop_inventory called   *)
(* on a reader whose session is running, while the reader transmits tags   *)
(* and read errors occur on the line.  The worker thread is scheduled      *)
(* fairly: the test of the flag is taken once it stays possible, no        *)
(* receive lasts for ever (serial.Serial is opened with a read timeout)    *)
(* and no callback keeps the loop over the frames for ever.                *)
(***************************************************************************)
CancelInit ==
    /\ uart = UartIdle
    /\ app = AppIdle
    /\ portOpen = TRUE
    /\ rxq = << >>
    /\ running = TRUE
    /\ onTag = TRUE
    /\ thread = 1
    /\ workers = [w \in WorkerIds |->
                    IF w = 1 THEN [NoWorker EXCEPT !.pc = "check"] ELSE NoWorker]
    /\ fg = FgIdle
    /\ tagLog = << >>
    /\ rxLog = << >>
    /\ wireLog = << >>
    /\ devRest = << >>
    /\ opsLeft = 1
    /\ devLeft = MaxDev
    /\ ioLeft = MaxIoErr
    /\ obs = FALSE
    /\ CodecIdle

CancelNext ==
    \/ CallStop
    \/ StopJoin
    \/ StopFlush
    \/ StopSend
    \/ StopRecv
    \/ StartDev
    \/ \E w \in WorkerIds : WorkerCheck(w)
    \/ \E w \in WorkerIds : WorkerReceive(w)
    \/ \E w \in WorkerIds : WorkerReceiveIOError(w)
    \/ \E w \in WorkerIds : WorkerDispatch(w)

WorkerFairness ==
    \A w \in WorkerIds :
        /\ WF_vars(WorkerCheck(w))
        /\ []<>(workers[w].pc # "recv")
        /\ []<>(workers[w].pc # "dispatch")

SpecCancel == CancelInit /\ [][CancelNext]_vars /\ WorkerFairness

\* C37: under fair scheduling of the worker, whenever the running flag is
\* off while a worker is in its read loop, the worker leaves the loop or the
\* flag is set again: a worker never stays in the loop for ever with the
\* flag off.
C37_WorkerExitsOnceFlagOff ==
    \A w \in WorkerIds : (Alive(w) /\ ~running) ~> (~Alive(w) \/ running)

\* stop_inventory set the flag off while the worker was in its loop, and the
\* worker has left the loop while the stop waits at its join
C37_Witness ==
    /\ fg.op = "stop" /\ fg.pc = "s_join" /\ ~fg.idle
    /\ ~running
    /\ workers[1].pc = "done"


(***************************************************************************)
(* query_reader_power, query_baseband_profile and get_profile.             *)
(***************************************************************************)
MID_QUERY_READER_POWER == 514
MID_QUERY_BASEBAND == 524

ProfileLocals(op) ==
    [GuardedLocals(op, 0) EXCEPT !.phase = IF op = "query_baseband_profile"
                                           THEN "baseband" ELSE "power"]
    @@ [mask |-> <<0, 0, 0, 0>>, powers |-> << >>, baseband |-> << >>]

\* query_reader_power() and query_baseband_profile() begin with
\* stop_inventory(); get_profile() begins with query_enabled_ant_mask()
Call_query(op) ==
    /\ FgFree
    /\ opsLeft > 0
    /\ opsLeft' = opsLeft - 1
    /\ fg' = IF op = "get_profile" THEN [ProfileLocals(op) EXCEPT !.pc = "q_flush"]
             ELSE ProfileLocals(op)
    /\ UNCHANGED <<portOpen, rxq, running, onTag, thread, workers, tagLog, rxLog,
                   wireLog, devRest, devLeft, ioLeft>>
    /\ UNCHANGED <<obs, cin, cout, cop, uart, app>>

\* query_reader_power or query_baseband_profile returning its dictionary: to
\* the application, or to get_profile lines 2323 and 2327
ProfileReturn(f, result) ==
    IF f.phase = "power"
    THEN IF f.op = "get_profile"
         THEN [f EXCEPT !.pc = "s_enter", !.phase = "baseband", !.powers = result]
         ELSE [f EXCEPT !.pc = "done", !.powers = result]
    ELSE [f EXCEPT !.pc = IF f.op = "get_profile" THEN "p_rest" ELSE "done",
                   !.baseband = result]

\* lines 960-963 and 3006-3010: flush_input and send the query; on a closed
\* port the exception is caught and the empty dictionary returned
ProfileSend ==
    /\ fg.pc = "p_send"
    /\ rxq' = << >>
    /\ fg' = IF portOpen
             THEN [fg EXCEPT !.pc = "p_recv",
                     !.sent = Append(@, build_frame(IF fg.phase = "power"
                                                    THEN MID_QUERY_READER_POWER
                                                    ELSE MID_QUERY_BASEBAND,
                                                    << >>, FALSE, FALSE))]
             ELSE ProfileReturn(fg, << >>)
    /\ UNCHANGED <<portOpen, running, onTag, thread, workers, tagLog, rxLog,
                   wireLog, devRest, opsLeft, devLeft, ioLeft>>
    /\ UNCHANGED <<obs, cin, cout, cop, uart, app>>

\* query_reader_power lines 968-989: the <<antenna id, power>> pairs of the
\* frame read, when parse_frame accepts it and its mid is 0x02
power_settings(raw_response) ==
    LET parsed_frame == parse_frame(raw_response) IN
    IF Len(raw_response) = 0 \/ ~parsed_frame.valid \/ parsed_frame.mid # 2 THEN << >>
    ELSE [k \in 1..(Len(parsed_frame.data) \div 2) |->
            <<parsed_frame.data[2 * k - 1], parsed_frame.data[2 * k]>>]

\* query_baseband_profile lines 3014-3037: the four parameters of the first
\* valid frame
baseband_info(raw_response) ==
    LET frames == extract_valid_frames(raw_response) IN
    IF Len(frames) = 0 THEN << >>
    ELSE IF Len(parse_frame(frames[1]).data) < 4 THEN << >>
    ELSE Slice(parse_frame(frames[1]).data, 0, 4)

\* receive(128) in query_reader_power, receive(64) in query_baseband_profile
ProfileRecv ==
    /\ fg.pc = "p_recv"
    /\ LET r == IF fg.phase = "power" THEN receive(128) ELSE receive(64) IN
       IF r.exc # "none"
       THEN /\ fg' = ProfileReturn(fg, << >>)
            /\ UNCHANGED rxq
       ELSE /\ rxq' = r.rest
            /\ fg' = ProfileReturn(fg, IF fg.phase = "power" THEN power_settings(r.data)
                                       ELSE baseband_info(r.data))
    /\ UNCHANGED <<portOpen, running, onTag, thread, workers, tagLog, rxLog,
                   wireLog, devRest, opsLeft, devLeft, ioLeft>>
    /\ UNCHANGED <<obs, cin, cout, cop, uart, app>>

\* get_profile lines 2336-2361: query_rf_band, query_working_frequency,
\* query_filter_settings and Query_Reader_Information, each a flush, a send
\* and a receive that leave the inventory state alone
ProfileRest ==
    /\ fg.pc = "p_rest"
    /\ rxq' = << >>
    /\ fg' = [fg EXCEPT !.pc = "done"]
    /\ UNCHANGED <<portOpen, running, onTag, thread, workers, tagLog, rxLog,
                   wireLog, devRest, opsLeft, devLeft, ioLeft>>
    /\ UNCHANGED <<obs, cin, cout, cop, uart, app>>

(***************************************************************************)
(* Specification of the queries: query_reader_power, query_baseband_profile *)
(* or get_profile called once on a reader whose inventory session is       *)
(* running or idle.                                                        *)
(***************************************************************************)
PowerAnswer == build_frame(MID_QUERY_READER_POWER, <<1, 30>>, FALSE, FALSE)
BasebandAnswer == build_frame(MID_QUERY_BASEBAND, <<1, 4, 0, 0>>, FALSE, FALSE)

ProfileFramesAt(pc) ==
    IF pc = "s_recv" THEN {StopOk, StopErr}
    ELSE IF pc \in {"q_recv", "p_recv"} THEN {PowerAnswer, BasebandAnswer}
    ELSE IF pc \in {"idle", "q_flush", "s_enter"} /\ ThreadAlive THEN {TagA}
    ELSE {}

ProfileDev == \E f \in ProfileFramesAt(fg.pc) : DevEmit(f)

ProfileInit ==
    /\ uart = UartIdle
    /\ app = AppIdle
    /\ \E session \in {"running", "idle"} :
         /\ running = (session = "running")
         /\ onTag = (session = "running")
         /\ thread = IF session = "running" THEN 1 ELSE 0
         /\ workers = [w \in WorkerIds |->
                         IF w = 1 /\ session = "running"
                         THEN [NoWorker EXCEPT !.pc = "check"] ELSE NoWorker]
    /\ portOpen = TRUE
    /\ rxq = << >>
    /\ fg = FgIdle
    /\ tagLog = << >>
    /\ rxLog = << >>
    /\ wireLog = << >>
    /\ devRest = << >>
    /\ opsLeft = 1
    /\ devLeft = MaxDev
    /\ ioLeft = 0
    /\ obs = FALSE
    /\ CodecIdle

ProfileNext ==
    \/ \E op \in QueryOps : Call_query(op)
    \/ QueryFlush
    \/ QuerySend
    \/ QueryRecv
    \/ StopEnter
    \/ StopJoin
    \/ StopFlush
    \/ StopSend
    \/ StopRecv
    \/ ProfileSend
    \/ ProfileRecv
    \/ ProfileRest
    \/ ProfileDev
    \/ \E w \in WorkerIds : WorkerCheck(w)
    \/ \E w \in WorkerIds : WorkerReceive(w)
    \/ \E w \in WorkerIds : WorkerDispatch(w)

SpecProfile == ProfileInit /\ [][ProfileNext]_vars

\* C38: when query_reader_power, query_baseband_profile or get_profile has
\* returned, the running flag is off and the call has sent a stop frame; from
\* its first stop_inventory() on, no step of the call or of the worker sets
\* the flag again, and the call starts no worker.
C38_QueriesLeaveInventoryIdle ==
    /\ [](fg.op \in QueryOps /\ fg.pc = "done" => ~running /\ fg.sends >= 1)
    /\ [][(fg.op \in QueryOps /\ ~running) => ~running']_vars
    /\ [][fg.op \in QueryOps => ~WorkerLaunched]_vars

\* get_profile was called on a running session and has returned after the
\* stops of its two queries
C38_Witness ==
    /\ fg.op = "get_profile" /\ fg.pc = "done"
    /\ ~fg.idle
    /\ fg.sends = 2
    /\ ~running

====
